---- MODULE Spec2Model ----
(***************************************************************************)
(* A model of the MCP JSON-RPC dispatcher of netlify-function-mcp:         *)
(* the message codec (jsonrpc.ts), the error taxonomy (errors.ts) and the  *)
(* session/dispatcher McpServer (mcp-server.ts).                           *)
(*                                                                         *)
(* JavaScript values are tagged records.  A request text is a sequence of  *)
(* JSON tokens (lexing and white space are abstracted); JSON.parse is a    *)
(* recursive-descent parser over the tokens and JSON.stringify produces    *)
(* tokens again.  Object key order is not modelled.                        *)
(***************************************************************************)
EXTENDS Integers, Sequences, FiniteSets, TLC

(***************************************************************************)
(* JavaScript values                                                       *)
(***************************************************************************)
Undefined == [t |-> "undefined"]
Null == [t |-> "null"]
Bool(b) == [t |-> "boolean", b |-> b]
Num(n) == [t |-> "number", n |-> n]
Str(s) == [t |-> "string", s |-> s]
\* a string holding JSON text: the tokens of the text
Text(toks) == [t |-> "string", j |-> toks]
Arr(a) == [t |-> "array", a |-> a]
Obj(f) == [t |-> "object", o |-> f]
\* an object that refers to itself: no finite tree describes it
Circular == [t |-> "circular"]
EmptyObj == Obj(<<>>)

\* typeof v
TypeOf(v) ==
  CASE v.t \in {"null", "array", "object", "circular"} -> "object"
    [] OTHER -> v.t

\* the truthiness of v, as `!v`, `v && ...` and `v || ...` read it
Truthy(v) ==
  CASE v.t \in {"undefined", "null"} -> FALSE
    [] v.t = "boolean" -> v.b
    [] v.t = "number" -> v.n # 0
    [] v.t = "string" -> IF "s" \in DOMAIN v THEN v.s # "" ELSE Len(v.j) > 0
    [] OTHER -> TRUE

\* v.key: the property `key` of a value that is neither null nor undefined.
\* Only plain objects of the model carry own properties.
Get(v, key) ==
  IF v.t = "object" /\ key \in DOMAIN v.o THEN v.o[key] ELSE Undefined

\* s.includes(part): part occurs in the string s
Includes(s, part) ==
  \E i \in 1..(Len(s) - Len(part) + 1) : SubSeq(s, i, i + Len(part) - 1) = part

\* a ?? b
Coalesce(a, b) == IF a.t \in {"undefined", "null"} THEN b ELSE a

(***************************************************************************)
(* JSON tokens, JSON.parse and JSON.stringify                              *)
(***************************************************************************)
P(s) == [k |-> "punct", s |-> s]
TStr(s) == [k |-> "string", s |-> s]
TNum(n) == [k |-> "number", n |-> n]
TLit(s) == [k |-> "literal", s |-> s]
\* a lexeme that is no JSON token (a bare word, a single quote, ...)
TBad == [k |-> "bad"]

IsP(tok, s) == tok.k = "punct" /\ tok.s = s

ParseFail == [ok |-> FALSE]

LitValue(s) ==
  CASE s = "null" -> Null
    [] s = "true" -> Bool(TRUE)
    [] s = "false" -> Bool(FALSE)

RECURSIVE ParseValue(_), ParseMembers(_, _), ParseElements(_, _)

\* one JSON value at the head of toks: [ok, val, rest]
ParseValue(toks) ==
  IF Len(toks) = 0 THEN ParseFail
  ELSE LET h == Head(toks)
           r == Tail(toks)
       IN CASE h.k = "literal" -> [ok |-> TRUE, val |-> LitValue(h.s), rest |-> r]
            [] h.k = "number" -> [ok |-> TRUE, val |-> Num(h.n), rest |-> r]
            [] h.k = "string" -> [ok |-> TRUE, val |-> Str(h.s), rest |-> r]
            [] IsP(h, "{") ->
                 IF Len(r) > 0 /\ IsP(Head(r), "}")
                 THEN [ok |-> TRUE, val |-> EmptyObj, rest |-> Tail(r)]
                 ELSE ParseMembers(r, <<>>)
            [] IsP(h, "[") ->
                 IF Len(r) > 0 /\ IsP(Head(r), "]")
                 THEN [ok |-> TRUE, val |-> Arr(<<>>), rest |-> Tail(r)]
                 ELSE ParseElements(r, <<>>)
            [] OTHER -> ParseFail

\* the members of an object after "{"; a repeated key keeps its last value
ParseMembers(toks, acc) ==
  IF Len(toks) < 2 \/ Head(toks).k # "string" \/ ~IsP(toks[2], ":") THEN ParseFail
  ELSE LET key == toks[1].s
           pv == ParseValue(SubSeq(toks, 3, Len(toks)))
       IN IF ~pv.ok THEN ParseFail
          ELSE LET acc2 == (key :> pv.val) @@ acc
                   r == pv.rest
               IN IF Len(r) = 0 THEN ParseFail
                  ELSE IF IsP(r[1], "}")
                       THEN [ok |-> TRUE, val |-> Obj(acc2), rest |-> Tail(r)]
                  ELSE IF IsP(r[1], ",") THEN ParseMembers(Tail(r), acc2)
                  ELSE ParseFail

\* the elements of an array after "["
ParseElements(toks, acc) ==
  LET pv == ParseValue(toks)
  IN IF ~pv.ok THEN ParseFail
     ELSE LET acc2 == Append(acc, pv.val)
              r == pv.rest
          IN IF Len(r) = 0 THEN ParseFail
             ELSE IF IsP(r[1], "]")
                  THEN [ok |-> TRUE, val |-> Arr(acc2), rest |-> Tail(r)]
             ELSE IF IsP(r[1], ",") THEN ParseElements(Tail(r), acc2)
             ELSE ParseFail

\* a text is one value and nothing after it
WholeText(pv) ==
  IF pv.ok /\ Len(pv.rest) = 0 THEN [ok |-> TRUE, val |-> pv.val] ELSE ParseFail

\* JSON.parse(text): [ok |-> TRUE, val] or [ok |-> FALSE] (a SyntaxError)
JSONParse(text) == WholeText(ParseValue(text))

RECURSIVE Tokens(_), MemberTokens(_, _), ElementTokens(_)

\* the tokens JSON.stringify writes for a value it can serialise
Tokens(v) ==
  CASE v.t = "null" -> <<TLit("null")>>
    [] v.t = "undefined" -> <<TLit("null")>>
    [] v.t = "boolean" -> <<TLit(IF v.b THEN "true" ELSE "false")>>
    [] v.t = "number" -> <<TNum(v.n)>>
    [] v.t = "string" -> <<TStr(IF "s" \in DOMAIN v THEN v.s ELSE "<json>")>>
    [] v.t = "array" -> <<P("[")>> \o ElementTokens(v.a) \o <<P("]")>>
    [] v.t = "object" ->
         <<P("{")>> \o MemberTokens(v.o, {k \in DOMAIN v.o : v.o[k] # Undefined})
                    \o <<P("}")>>

\* the members named by keys; a member whose value is undefined is left out
MemberTokens(f, keys) ==
  IF keys = {} THEN <<>>
  ELSE LET k == CHOOSE x \in keys : TRUE
           more == keys \ {k}
       IN <<TStr(k), P(":")>> \o Tokens(f[k])
            \o (IF more = {} THEN <<>> ELSE <<P(",")>> \o MemberTokens(f, more))

\* the elements of an array; an undefined element is written null
ElementTokens(a) ==
  IF Len(a) = 0 THEN <<>>
  ELSE Tokens(Head(a))
         \o (IF Len(a) = 1 THEN <<>> ELSE <<P(",")>> \o ElementTokens(Tail(a)))

\* JSON.stringify(v, null, 2): a string, undefined for undefined, or a
\* TypeError for a circular structure
JSONStringify(v) ==
  CASE v.t = "undefined" -> [kind |-> "value", val |-> Undefined]
    [] v.t = "circular" ->
         [kind |-> "throw", message |-> "Converting circular structure to JSON"]
    [] OTHER -> [kind |-> "value", val |-> Text(Tokens(v))]

(***************************************************************************)
(* The request texts the environment submits                              *)
(***************************************************************************)
\* the JSON object of a request; an undefined id or params is left out
Req(id, method, params) ==
  Obj([k \in {"jsonrpc", "method"}
               \cup (IF id # Undefined THEN {"id"} ELSE {})
               \cup (IF params # Undefined THEN {"params"} ELSE {}) |->
         CASE k = "jsonrpc" -> Str("2.0")
           [] k = "method" -> method
           [] k = "id" -> id
           [] k = "params" -> params])

Ids == {Undefined, Null, Num(0), Num(7), Str("a"), Bool(TRUE)}
Methods == {"initialize", "initialized", "tools/list", "tools/call", "foo", ""}
\* the methods submitted with every id of Ids
IdMethods == {"initialize", "tools/list", "foo"}
ToolNames == {"toolA", "toolB", "missingTool", ""}
InitParams == {EmptyObj, Null, Str("x"),
               Obj([protocolVersion |-> Str("2024-11-05")]),
               Obj([protocolVersion |-> Str("1.0"), capabilities |-> EmptyObj])}
ArgValues == {Obj([x |-> Num(1)]), Null, Num(0)}
CallParams ==
  {Null, Num(0), Str("x"), Arr(<<>>), EmptyObj, Obj([name |-> Num(1)]),
   Obj([name |-> Null]), Obj([arguments |-> EmptyObj])}
    \cup {Obj([name |-> Str(n)]) : n \in ToolNames}
    \cup {Obj([name |-> Str("toolA"), arguments |-> a]) : a \in ArgValues}

ValidRequests ==
  {Req(id, Str(m), Undefined) : id \in Ids, m \in IdMethods}
    \cup {Req(id, Str(m), Undefined) : id \in {Undefined, Num(7)}, m \in Methods}
    \cup {Req(Num(7), Str("initialize"), p) : p \in InitParams}
    \cup {Req(Num(7), Str("tools/call"), p) : p \in CallParams}
    \cup {Req(Undefined, Str("tools/call"), Obj([name |-> Str("toolA")])),
          Req(Str("a"), Str("tools/call"), Obj([name |-> Str("missingTool")]))}

\* JSON values that are no request envelope
InvalidEnvelopes ==
  {Null, Num(5), Num(0), Str("x"), Str(""), Bool(TRUE), Bool(FALSE), Arr(<<>>),
   Arr(<<Req(Num(7), Str("initialize"), Undefined)>>), EmptyObj,
   Obj([jsonrpc |-> Str("2.0"), id |-> Num(7)]),
   Req(Num(7), Num(5), Undefined), Req(Num(7), Null, Undefined),
   Req(Num(7), Arr(<<Str("initialize")>>), Undefined),
   Obj([jsonrpc |-> Str("1.0"), id |-> Num(7), method |-> Str("initialize")]),
   Obj([jsonrpc |-> Num(2), id |-> Num(7), method |-> Str("initialize")]),
   Obj([id |-> Num(7), method |-> Str("tools/list")])}

SampleText == Tokens(Req(Num(7), Str("initialize"), EmptyObj))

\* texts that are not JSON: the empty text, cut-off and over-long texts,
\* illegal lexemes, misplaced punctuation
BrokenTexts ==
  {SubSeq(SampleText, 1, n) : n \in 0..(Len(SampleText) - 1)}
    \cup {SampleText \o <<P("}")>>, SampleText \o SampleText, <<TBad>>,
          <<TBad>> \o SampleText, <<TNum(1), TNum(2)>>,
          <<P("{"), TStr("jsonrpc"), TStr("2.0"), P("}")>>,
          <<P("{"), TStr("method"), P(":"), TStr("initialize"), P(","), P("}")>>,
          <<P("["), TNum(1), P(","), P("]")>>,
          <<P("{"), TNum(1), P(":"), TNum(1), P("}")>>}

\* a text that names a member twice
RepeatedKeyText ==
  <<P("{"), TStr("jsonrpc"), P(":"), TStr("2.0"), P(","),
    TStr("method"), P(":"), TStr("foo"), P(","),
    TStr("method"), P(":"), TStr("initialize"), P("}")>>

Texts ==
  {Tokens(v) : v \in ValidRequests \cup InvalidEnvelopes}
    \cup BrokenTexts \cup {RepeatedKeyText}

(***************************************************************************)
(* Completions of a call: it returns a value, throws, or (an async         *)
(* function) is suspended at an await                                      *)
(***************************************************************************)
Return(v) == [kind |-> "return", val |-> v]
Throw(e) == [kind |-> "throw", err |-> e]

(***************************************************************************)
(* Error taxonomy (errors.ts)                                              *)
(***************************************************************************)
ParseError == -32700
InvalidRequest == -32600
MethodNotFound == -32601
InvalidParams == -32602
InternalError == -32603

\* new JsonRpcError(code, message, data); data is undefined when not given
JsonRpcError(code, message, data) ==
  [cls |-> "JsonRpcError", code |-> code, message |-> message, data |-> data]
\* any other Error instance
Error(message) == [cls |-> "Error", message |-> message]
\* a thrown value that is no Error instance
NonError(v) == [cls |-> "value", val |-> v]

\* error instanceof JsonRpcError
IsJsonRpcError(e) == e.cls = "JsonRpcError"
\* error instanceof Error
IsError(e) == e.cls \in {"JsonRpcError", "Error"}

\* variant: the response also carries `result: null`, as JSON-RPC 1.0 did
createErrorResponse_WithNullResult(id, error) ==
  Obj([jsonrpc |-> Str("2.0"),
       id |-> id,
       result |-> Null,
       error |-> Obj([code |-> Num(error.code), message |-> Str(error.message)])])

\* variant: data is copied when it is truthy
createErrorResponse_DataWhenTruthy(id, error) ==
  Obj([jsonrpc |-> Str("2.0"),
       id |-> id,
       error |-> Obj(IF Truthy(error.data)
                     THEN [code |-> Num(error.code), message |-> Str(error.message),
                           data |-> error.data]
                     ELSE [code |-> Num(error.code), message |-> Str(error.message)])])

createErrorResponse(id, error) ==
  Obj([jsonrpc |-> Str("2.0"),
       id |-> id,
       error |-> Obj(IF error.data # Undefined
                     THEN [code |-> Num(error.code), message |-> Str(error.message),
                           data |-> error.data]
                     ELSE [code |-> Num(error.code), message |-> Str(error.message)])])

(***************************************************************************)
(* Message codec (jsonrpc.ts)                                              *)
(***************************************************************************)
\* variant: any protocol tag is accepted, as long as there is one
isValidJsonRpcRequest_AnyVersion(data) ==
  /\ Truthy(data)
  /\ TypeOf(data) = "object"
  /\ Truthy(Get(data, "jsonrpc"))
  /\ TypeOf(Get(data, "method")) = "string"

\* variant: an empty method is no method
isValidJsonRpcRequest_NonEmptyMethod(data) ==
  /\ Truthy(data)
  /\ TypeOf(data) = "object"
  /\ Get(data, "jsonrpc") = Str("2.0")
  /\ TypeOf(Get(data, "method")) = "string"
  /\ Truthy(Get(data, "method"))

isValidJsonRpcRequest(data) ==
  /\ Truthy(data)
  /\ TypeOf(data) = "object"
  /\ Get(data, "jsonrpc") = Str("2.0")
  /\ TypeOf(Get(data, "method")) = "string"

\* variant: a text that is not JSON is reported as an invalid request
parseJsonRpcMessage_AsInvalidRequest(text) ==
  LET p == JSONParse(text)
  IN IF ~p.ok \/ ~isValidJsonRpcRequest(p.val)
     THEN Throw(JsonRpcError(InvalidRequest, "Invalid JSON-RPC request", Undefined))
     ELSE Return(p.val)

\* parseJsonRpcMessage after JSON.parse, which gave p
messageOf(p) ==
  IF ~p.ok THEN Throw(JsonRpcError(ParseError, "Invalid JSON", Undefined))
  ELSE IF ~isValidJsonRpcRequest(p.val)
       THEN Throw(JsonRpcError(InvalidRequest, "Invalid JSON-RPC request", Undefined))
  ELSE Return(p.val)

parseJsonRpcMessage(text) == messageOf(JSONParse(text))

createSuccessResponse(id, result) ==
  Obj([jsonrpc |-> Str("2.0"), id |-> id, result |-> result])

(***************************************************************************)
(* Bounds and the inputs the environment draws from                        *)
(***************************************************************************)
\* the most tools/call requests suspended in their tools at once
MaxPending == 1
\* initCount counts the initialize requests up to this number
MaxInitCount == 2

ToolA == [name |-> "toolA", description |-> Str("first tool"),
          inputSchema |-> Obj([type |-> Str("object")]), handler |-> "hA"]
ToolB == [name |-> "toolB", description |-> Str("second tool"),
          inputSchema |-> EmptyObj, handler |-> "hB"]
\* another tool under the name of ToolA
ToolA2 == [name |-> "toolA", description |-> Str("shadowing tool"),
           inputSchema |-> Obj([type |-> Str("string")]), handler |-> "hA2"]

\* the tool sequences a server may be constructed from
ToolSeqs == {<<>>, <<ToolA>>, <<ToolA, ToolB>>, <<ToolB, ToolA>>, <<ToolA, ToolA2>>}

OptionSet == {[name |-> "X", version |-> "1.0.0"], [name |-> "Y", version |-> "0.2"]}

(***************************************************************************)
(* McpServer (mcp-server.ts)                                               *)
(***************************************************************************)
VARIABLES
  options,       \* McpServerOptions given at construction
  tools,         \* this.tools: the tool sequence given at construction
  toolRegistry,  \* this.toolRegistry: Map name -> Tool
  initialized,   \* this.initialized
  pending,       \* the tools/call requests suspended at `await tool.handler(...)`
  phase,         \* what the latest step was: "init", "handled", "suspended", "completed"
  reqText,       \* the text of the request the latest step worked on
  response,      \* the response that step returned, undefined if it returned none
  raised,        \* TRUE iff that step made handleRequest's promise reject
  invoked,       \* the tool invocations that step started: <<[tool, args]>> or <<>>
  toolOutcome,   \* how the tool completed in a "completed" step, else undefined
  branch,        \* the branch of the switch that step ran in, "none" if it ran in none
  initCount,     \* history: the initialize requests handled, up to MaxInitCount
  wasInitialized, \* history: this.initialized when the latest step began
  http,          \* the HTTP adapter in front of the server and its latest call
  probe,         \* the latest direct call of a function of the codec, if any
  peer           \* the server of a handler created separately, and its latest call

vars == <<options, tools, toolRegistry, initialized, pending, phase, reqText,
          response, raised, invoked, toolOutcome, branch, initCount,
          wasInitialized, http, probe, peer>>

RECURSIVE RegistryOf_KeepFirst(_, _)
\* variant: a name that is already registered is not registered again
RegistryOf_KeepFirst(ts, reg) ==
  IF Len(ts) = 0 THEN reg
  ELSE RegistryOf_KeepFirst(Tail(ts), reg @@ (Head(ts).name :> Head(ts)))

RECURSIVE RegistryOf(_, _)
\* tools.forEach(tool => this.toolRegistry.set(tool.name, tool))
RegistryOf(ts, reg) ==
  IF Len(ts) = 0 THEN reg
  ELSE RegistryOf(Tail(ts), (Head(ts).name :> Head(ts)) @@ reg)

\* this.toolRegistry.get(name)
RegistryGet(reg, name) == IF name \in DOMAIN reg THEN reg[name] ELSE Undefined

\* request.id ?? null
IdOf(request) == Coalesce(Get(request, "id"), Null)

\* variant: initialize flips the flag instead of setting it
handleInitialize_Toggle(self, request) ==
  Return(createSuccessResponse(IdOf(request),
           Obj([protocolVersion |-> Str("2024-11-05"),
                capabilities |-> Obj([tools |-> EmptyObj]),
                serverInfo |-> Obj([name |-> Str(self.options.name),
                                    version |-> Str(self.options.version)])])))
    @@ [initialized |-> ~self.initialized]

\* variant: the version the client asked for is sent back when it names one
handleInitialize_EchoClientVersion(self, request) ==
  LET asked == Get(Get(request, "params"), "protocolVersion")
  IN Return(createSuccessResponse(IdOf(request),
              Obj([protocolVersion |-> IF TypeOf(asked) = "string" THEN asked
                                       ELSE Str("2024-11-05"),
                   capabilities |-> Obj([tools |-> EmptyObj]),
                   serverInfo |-> Obj([name |-> Str(self.options.name),
                                       version |-> Str(self.options.version)])])))
       @@ [initialized |-> TRUE]

\* variant: an initialize sent to an initialized session is rejected
handleInitialize_RejectRepeat(self, request) ==
  (IF self.initialized
   THEN Throw(JsonRpcError(InvalidRequest, "Server already initialized", Undefined))
   ELSE Return(createSuccessResponse(IdOf(request),
                 Obj([protocolVersion |-> Str("2024-11-05"),
                      capabilities |-> Obj([tools |-> EmptyObj]),
                      serverInfo |-> Obj([name |-> Str(self.options.name),
                                          version |-> Str(self.options.version)])]))))
    @@ [initialized |-> TRUE]

\* variant: the flag is never set
handleInitialize_NoFlag(self, request) ==
  Return(createSuccessResponse(IdOf(request),
           Obj([protocolVersion |-> Str("2024-11-05"),
                capabilities |-> Obj([tools |-> EmptyObj]),
                serverInfo |-> Obj([name |-> Str(self.options.name),
                                    version |-> Str(self.options.version)])])))
    @@ [initialized |-> self.initialized]

\* A handler's completion carries the value of this.initialized it leaves.
handleInitialize(self, request) ==
  LET result == Obj([protocolVersion |-> Str("2024-11-05"),
                     capabilities |-> Obj([tools |-> EmptyObj]),
                     serverInfo |-> Obj([name |-> Str(self.options.name),
                                         version |-> Str(self.options.version)])])
  IN Return(createSuccessResponse(IdOf(request), result)) @@ [initialized |-> TRUE]

\* variant: the notification opens the session
handleInitialized_SetsFlag(self, request) ==
  Return(createSuccessResponse(IdOf(request), EmptyObj))
    @@ [initialized |-> TRUE]

handleInitialized(self, request) ==
  Return(createSuccessResponse(IdOf(request), EmptyObj))
    @@ [initialized |-> self.initialized]

RECURSIVE ListedNames(_, _)
\* variant: the tools are listed from the registry, one per name
ListedNames(reg, names) ==
  IF names = {} THEN <<>>
  ELSE LET n == CHOOSE x \in names : TRUE
       IN <<Obj([name |-> Str(reg[n].name),
                 description |-> reg[n].description,
                 inputSchema |-> reg[n].inputSchema])>> \o ListedNames(reg, names \ {n})

ListedTools_FromRegistry(ts) ==
  ListedNames(RegistryOf(ts, <<>>), DOMAIN RegistryOf(ts, <<>>))

RECURSIVE ListedTools(_)
\* this.tools.map(tool => ({name, description, inputSchema}))
ListedTools(ts) ==
  IF Len(ts) = 0 THEN <<>>
  ELSE <<Obj([name |-> Str(Head(ts).name),
              description |-> Head(ts).description,
              inputSchema |-> Head(ts).inputSchema])>> \o ListedTools(Tail(ts))

handleToolsList(self, request) ==
  (IF ~self.initialized
   THEN Throw(JsonRpcError(InvalidRequest, "Server not initialized", Undefined))
   ELSE Return(createSuccessResponse(IdOf(request),
                                     Obj([tools |-> Arr(ListedTools(self.tools))]))))
    @@ [initialized |-> self.initialized]

\* variant: the session check is missing
handleToolsCall_NoInitCheck(self, request) ==
  LET params == Get(request, "params")
      name == Get(params, "name")
      tool == RegistryGet(self.toolRegistry, name.s)
      arguments == Get(params, "arguments")
  IN (IF ~Truthy(params) \/ TypeOf(name) # "string"
      THEN Throw(JsonRpcError(InvalidParams, "Missing tool name", Undefined))
      ELSE IF tool = Undefined
           THEN Throw(JsonRpcError(InvalidParams, "Tool not found: " \o name.s, Undefined))
      ELSE [kind |-> "await", request |-> request, tool |-> tool,
            args |-> IF Truthy(arguments) THEN arguments ELSE EmptyObj])
       @@ [initialized |-> self.initialized]

\* variant: an unknown tool is reported as an unknown method
handleToolsCall_NotFoundAsMethod(self, request) ==
  LET params == Get(request, "params")
      name == Get(params, "name")
      tool == RegistryGet(self.toolRegistry, name.s)
      arguments == Get(params, "arguments")
  IN (IF ~self.initialized
      THEN Throw(JsonRpcError(InvalidRequest, "Server not initialized", Undefined))
      ELSE IF ~Truthy(params) \/ TypeOf(name) # "string"
           THEN Throw(JsonRpcError(InvalidParams, "Missing tool name", Undefined))
      ELSE IF tool = Undefined
           THEN Throw(JsonRpcError(MethodNotFound, "Tool not found: " \o name.s, Undefined))
      ELSE [kind |-> "await", request |-> request, tool |-> tool,
            args |-> IF Truthy(arguments) THEN arguments ELSE EmptyObj])
       @@ [initialized |-> self.initialized]

\* variant: the name is checked before the session
handleToolsCall_NameFirst(self, request) ==
  LET params == Get(request, "params")
      name == Get(params, "name")
      tool == RegistryGet(self.toolRegistry, name.s)
      arguments == Get(params, "arguments")
  IN (IF ~Truthy(params) \/ TypeOf(name) # "string"
      THEN Throw(JsonRpcError(InvalidParams, "Missing tool name", Undefined))
      ELSE IF ~self.initialized
           THEN Throw(JsonRpcError(InvalidRequest, "Server not initialized", Undefined))
      ELSE IF tool = Undefined
           THEN Throw(JsonRpcError(InvalidParams, "Tool not found: " \o name.s, Undefined))
      ELSE [kind |-> "await", request |-> request, tool |-> tool,
            args |-> IF Truthy(arguments) THEN arguments ELSE EmptyObj])
       @@ [initialized |-> self.initialized]

\* variant: a missing name is thrown as a plain Error
handleToolsCall_MissingNameAsError(self, request) ==
  LET params == Get(request, "params")
      name == Get(params, "name")
      tool == RegistryGet(self.toolRegistry, name.s)
      arguments == Get(params, "arguments")
  IN (IF ~self.initialized
      THEN Throw(JsonRpcError(InvalidRequest, "Server not initialized", Undefined))
      ELSE IF ~Truthy(params) \/ TypeOf(name) # "string"
           THEN Throw(Error("Missing tool name"))
      ELSE IF tool = Undefined
           THEN Throw(JsonRpcError(InvalidParams, "Tool not found: " \o name.s, Undefined))
      ELSE [kind |-> "await", request |-> request, tool |-> tool,
            args |-> IF Truthy(arguments) THEN arguments ELSE EmptyObj])
       @@ [initialized |-> self.initialized]

\* handleToolsCall up to `await tool.handler(params.arguments || {})`: it throws,
\* or it has invoked the tool and is suspended
handleToolsCall(self, request) ==
  LET params == Get(request, "params")
      name == Get(params, "name")
      tool == RegistryGet(self.toolRegistry, name.s)
      arguments == Get(params, "arguments")
  IN (IF ~self.initialized
      THEN Throw(JsonRpcError(InvalidRequest, "Server not initialized", Undefined))
      ELSE IF ~Truthy(params) \/ TypeOf(name) # "string"
           THEN Throw(JsonRpcError(InvalidParams, "Missing tool name", Undefined))
      ELSE IF tool = Undefined
           THEN Throw(JsonRpcError(InvalidParams, "Tool not found: " \o name.s, Undefined))
      ELSE [kind |-> "await", request |-> request, tool |-> tool,
            args |-> IF Truthy(arguments) THEN arguments ELSE EmptyObj])
       @@ [initialized |-> self.initialized]

\* variant: the failure of the tool is not quoted
handleToolsCallResume_NoFailureText(request, out) ==
  LET text == JSONStringify(out.val)
  IN IF out.kind = "return" /\ text.kind = "value"
     THEN Return(createSuccessResponse(IdOf(request),
            Obj([content |-> Arr(<<Obj([type |-> Str("text"), text |-> text.val])>>)])))
     ELSE Throw(JsonRpcError(InternalError, "Tool execution failed", Undefined))

\* variant: a JsonRpcError thrown by the tool is passed on as it is
handleToolsCallResume_PassJsonRpcError(request, out) ==
  LET text == JSONStringify(out.val)
  IN IF out.kind = "return" /\ text.kind = "value"
     THEN Return(createSuccessResponse(IdOf(request),
            Obj([content |-> Arr(<<Obj([type |-> Str("text"), text |-> text.val])>>)])))
     ELSE IF out.kind = "throw" /\ IsJsonRpcError(out.err) THEN Throw(out.err)
     ELSE LET message == IF out.kind = "return" THEN text.message
                         ELSE IF IsError(out.err) THEN out.err.message
                         ELSE "Unknown error"
          IN Throw(JsonRpcError(InternalError, "Tool execution failed: " \o message,
                                Undefined))

\* variant: tool failures get a code of the implementation-defined range
handleToolsCallResume_ServerErrorCode(request, out) ==
  LET text == JSONStringify(out.val)
  IN IF out.kind = "return" /\ text.kind = "value"
     THEN Return(createSuccessResponse(IdOf(request),
            Obj([content |-> Arr(<<Obj([type |-> Str("text"), text |-> text.val])>>)])))
     ELSE LET message == IF out.kind = "return" THEN text.message
                         ELSE IF IsError(out.err) THEN out.err.message
                         ELSE "Unknown error"
          IN Throw(JsonRpcError(-32000, "Tool execution failed: " \o message,
                                Undefined))

\* handleToolsCall from the await on, the tool having completed with `out`
\* (Return(v): its promise resolved with v; Throw(e): it threw or rejected with e)
handleToolsCallResume(request, out) ==
  LET text == JSONStringify(out.val)
  IN IF out.kind = "return" /\ text.kind = "value"
     THEN Return(createSuccessResponse(IdOf(request),
            Obj([content |-> Arr(<<Obj([type |-> Str("text"), text |-> text.val])>>)])))
     ELSE LET message == IF out.kind = "return" THEN text.message
                         ELSE IF IsError(out.err) THEN out.err.message
                         ELSE "Unknown error"
          IN Throw(JsonRpcError(InternalError, "Tool execution failed: " \o message,
                                Undefined))

\* variant: no catch, what the switch throws leaves handleRequest
catchDispatch_Rethrow(request, c) == c

\* variant: an error response never names the request
catchDispatch_NullId(request, c) ==
  IF c.kind # "throw" THEN c
  ELSE (IF IsJsonRpcError(c.err)
        THEN Return(createErrorResponse(Null, c.err))
        ELSE Return(createErrorResponse(Null,
                      JsonRpcError(InternalError,
                                   IF IsError(c.err) THEN c.err.message
                                   ELSE "Internal server error",
                                   Undefined))))
         @@ [initialized |-> c.initialized, branch |-> c.branch]

\* variant: an error closes the session
catchDispatch_CloseOnError(request, c) ==
  IF c.kind # "throw" THEN c
  ELSE (IF IsJsonRpcError(c.err)
        THEN Return(createErrorResponse(IdOf(request), c.err))
        ELSE Return(createErrorResponse(IdOf(request),
                      JsonRpcError(InternalError,
                                   IF IsError(c.err) THEN c.err.message
                                   ELSE "Internal server error",
                                   Undefined))))
         @@ [initialized |-> FALSE, branch |-> c.branch]

\* the catch of handleRequest's second try, applied to the completion c of the switch
catchDispatch(request, c) ==
  IF c.kind # "throw" THEN c
  ELSE (IF IsJsonRpcError(c.err)
        THEN Return(createErrorResponse(IdOf(request), c.err))
        ELSE Return(createErrorResponse(IdOf(request),
                      JsonRpcError(InternalError,
                                   IF IsError(c.err) THEN c.err.message
                                   ELSE "Internal server error",
                                   Undefined))))
         @@ [initialized |-> c.initialized, branch |-> c.branch]

\* variant: an unknown method is reported as an invalid request
dispatch_UnknownAsInvalidRequest(self, request) ==
  LET method == Get(request, "method").s
  IN CASE method = "initialize" ->
            handleInitialize(self, request) @@ [branch |-> "initialize"]
       [] method = "initialized" ->
            handleInitialized(self, request) @@ [branch |-> "initialized"]
       [] method = "tools/list" ->
            handleToolsList(self, request) @@ [branch |-> "tools/list"]
       [] method = "tools/call" ->
            handleToolsCall(self, request) @@ [branch |-> "tools/call"]
       [] OTHER ->
            Throw(JsonRpcError(InvalidRequest, "Method not found: " \o method,
                               Undefined))
              @@ [initialized |-> self.initialized, branch |-> "default"]

\* switch (request.method)
dispatch(self, request) ==
  LET method == Get(request, "method").s
  IN CASE method = "initialize" ->
            handleInitialize(self, request) @@ [branch |-> "initialize"]
       [] method = "initialized" ->
            handleInitialized(self, request) @@ [branch |-> "initialized"]
       [] method = "tools/list" ->
            handleToolsList(self, request) @@ [branch |-> "tools/list"]
       [] method = "tools/call" ->
            handleToolsCall(self, request) @@ [branch |-> "tools/call"]
       [] OTHER ->
            Throw(JsonRpcError(MethodNotFound, "Method not found: " \o method,
                               Undefined))
              @@ [initialized |-> self.initialized, branch |-> "default"]

\* the catch of handleRequest's first try, applied to the completion of its body:
\* the request, or the response that rejects the text
catchParse(checked) ==
  IF checked.kind = "return" THEN [ok |-> TRUE, request |-> checked.val]
  ELSE [ok |-> FALSE,
        response |->
          IF IsJsonRpcError(checked.err) THEN createErrorResponse(Null, checked.err)
          ELSE createErrorResponse(Null,
                 JsonRpcError(ParseError, "Failed to parse request", Undefined))]

\* the body of handleRequest's first try after parseJsonRpcMessage, which
\* completed with m
checkMessage(m) ==
  IF m.kind = "return" /\ ~isValidJsonRpcRequest(m.val)
  THEN Throw(JsonRpcError(InvalidRequest, "Invalid JSON-RPC request", Undefined))
  ELSE m

\* the first try of handleRequest
parseRequest(text) == catchParse(checkMessage(parseJsonRpcMessage(text)))

\* handleRequest after its first try, which gave p, up to the first suspension
handleParsed(self, p) ==
  IF ~p.ok
  THEN Return(p.response) @@ [initialized |-> self.initialized, branch |-> "none"]
  ELSE catchDispatch(p.request, dispatch(self, p.request))

\* handleRequest(requestText) up to its first suspension: a completion that
\* returns a response, throws, or awaits a tool, with the flag it leaves and the
\* branch of the switch it took
handleRequest(self, text) == handleParsed(self, parseRequest(text))

\* handleRequest from the tool's completion on
handleRequestResume(self, request, out) ==
  catchDispatch(request,
                handleToolsCallResume(request, out)
                  @@ [initialized |-> self.initialized, branch |-> "tools/call"])


\* how a tool's invocation may complete
ToolOutcomes ==
  {Return(Str("hello")), Return(Obj([sum |-> Num(3)])), Return(Null),
   Return(Undefined), Return(Circular),
   Throw(Error("boom")),
   Throw(JsonRpcError(InvalidParams, "bad args", Undefined)),
   Throw(JsonRpcError(-32000, "quota", Obj([left |-> Num(0)]))),
   Throw(NonError(Str("oops")))}

(***************************************************************************)
(* The state machine                                                       *)
(***************************************************************************)
\* no HTTP adapter: handleRequest is called directly
NoHttp == [adapter |-> "none"]

\* the constructor has run on the options and the tools it was given
Constructed ==
  /\ toolRegistry = RegistryOf(tools, <<>>)
  /\ initialized = FALSE
  /\ pending = <<>>
  /\ phase = "init"
  /\ reqText = <<>>
  /\ response = Undefined
  /\ raised = FALSE
  /\ invoked = <<>>
  /\ toolOutcome = Undefined
  /\ branch = "none"
  /\ initCount = 0
  /\ wasInitialized = FALSE

\* new McpServer(options, tools)
InitServer ==
  /\ options \in OptionSet
  /\ tools \in ToolSeqs
  /\ Constructed

\* no function of the codec has been called directly
NoProbe == [fn |-> "none"]

\* no other handler has been created
NoPeer == [adapter |-> "none"]

Init == InitServer /\ http = NoHttp /\ probe = NoProbe /\ peer = NoPeer

Self ==
  [options |-> options, tools |-> tools, toolRegistry |-> toolRegistry,
   initialized |-> initialized]

\* variant: requests are handled one at a time; a request waits while a tool runs
Proceed_OneAtATime(text, c, limit) ==
     /\ pending = <<>>
     /\ initialized' = c.initialized
     /\ reqText' = text
     /\ IF c.kind = "await"
        THEN /\ pending' = Append(pending, [text |-> text, request |-> c.request,
                                            tool |-> c.tool, args |-> c.args])
             /\ phase' = "suspended"
             /\ response' = Undefined
             /\ raised' = FALSE
             /\ invoked' = <<[tool |-> c.tool, args |-> c.args]>>
        ELSE /\ pending' = pending
             /\ phase' = "handled"
             /\ response' = (IF c.kind = "return" THEN c.val ELSE Undefined)
             /\ raised' = (c.kind = "throw")
             /\ invoked' = <<>>
     /\ toolOutcome' = Undefined
     /\ branch' = c.branch
     /\ initCount' = (IF c.branch = "initialize" /\ initCount < MaxInitCount
                      THEN initCount + 1 ELSE initCount)
     /\ wasInitialized' = initialized
     /\ UNCHANGED <<options, tools, toolRegistry>>

\* the call handleRequest(text) has run to the completion c, its return or the
\* await of the tool it invoked: what it leaves behind.  At most `limit` calls
\* are suspended at once.
Proceed(text, c, limit) ==
     /\ c.kind = "await" => Len(pending) < limit
     /\ initialized' = c.initialized
     /\ reqText' = text
     /\ IF c.kind = "await"
        THEN /\ pending' = Append(pending, [text |-> text, request |-> c.request,
                                            tool |-> c.tool, args |-> c.args])
             /\ phase' = "suspended"
             /\ response' = Undefined
             /\ raised' = FALSE
             /\ invoked' = <<[tool |-> c.tool, args |-> c.args]>>
        ELSE /\ pending' = pending
             /\ phase' = "handled"
             /\ response' = (IF c.kind = "return" THEN c.val ELSE Undefined)
             /\ raised' = (c.kind = "throw")
             /\ invoked' = <<>>
     /\ toolOutcome' = Undefined
     /\ branch' = c.branch
     /\ initCount' = (IF c.branch = "initialize" /\ initCount < MaxInitCount
                      THEN initCount + 1 ELSE initCount)
     /\ wasInitialized' = initialized
     /\ UNCHANGED <<options, tools, toolRegistry>>

\* a caller invokes handleRequest(text); it runs to its return or to the await
\* of the tool it invoked
Submit(text, limit) ==
  \E c \in {handleRequest(Self, text)} : Proceed(text, c, limit)

Handle(text) == Submit(text, MaxPending) /\ UNCHANGED <<http, probe, peer>>

\* variant: a tool that failed is invoked once more
Resume_RetryOnFailure(i, out) ==
  \E p \in {pending[i]} : \E c \in {handleRequestResume(Self, p.request, out)} :
     /\ initialized' = c.initialized
     /\ reqText' = p.text
     /\ toolOutcome' = out
     /\ branch' = c.branch
     /\ wasInitialized' = initialized
     /\ IF out.kind = "throw" /\ toolOutcome = Undefined
        THEN /\ pending' = pending
             /\ phase' = "suspended"
             /\ response' = Undefined
             /\ raised' = FALSE
             /\ invoked' = <<[tool |-> p.tool, args |-> p.args]>>
        ELSE /\ pending' = SubSeq(pending, 1, i - 1)
                             \o SubSeq(pending, i + 1, Len(pending))
             /\ phase' = "completed"
             /\ response' = (IF c.kind = "return" THEN c.val ELSE Undefined)
             /\ raised' = (c.kind = "throw")
             /\ invoked' = <<>>
     /\ UNCHANGED <<options, tools, toolRegistry, initCount>>

\* variant: the request is kept in a field of the server, which the latest
\* tools/call overwrites
Resume_LastRequest(i, out) ==
  \E p \in {pending[i]} :
    \E c \in {handleRequestResume(Self, pending[Len(pending)].request, out)} :
     /\ initialized' = c.initialized
     /\ reqText' = p.text
     /\ pending' = SubSeq(pending, 1, i - 1) \o SubSeq(pending, i + 1, Len(pending))
     /\ phase' = "completed"
     /\ response' = (IF c.kind = "return" THEN c.val ELSE Undefined)
     /\ raised' = (c.kind = "throw")
     /\ invoked' = <<>>
     /\ toolOutcome' = out
     /\ branch' = c.branch
     /\ wasInitialized' = initialized
     /\ UNCHANGED <<options, tools, toolRegistry, initCount>>

\* variant: a tool that failed is taken out of the registry
Resume_ForgetFailedTool(i, out) ==
  \E p \in {pending[i]} : \E c \in {handleRequestResume(Self, p.request, out)} :
     /\ initialized' = c.initialized
     /\ reqText' = p.text
     /\ pending' = SubSeq(pending, 1, i - 1) \o SubSeq(pending, i + 1, Len(pending))
     /\ phase' = "completed"
     /\ response' = (IF c.kind = "return" THEN c.val ELSE Undefined)
     /\ raised' = (c.kind = "throw")
     /\ invoked' = <<>>
     /\ toolOutcome' = out
     /\ branch' = c.branch
     /\ wasInitialized' = initialized
     /\ toolRegistry' = (IF out.kind = "throw"
                         THEN [n \in DOMAIN toolRegistry \ {p.tool.name} |->
                                 toolRegistry[n]]
                         ELSE toolRegistry)
     /\ UNCHANGED <<options, tools, initCount>>

\* variant: the failure of a tool closes the session
Resume_CloseOnFailure(i, out) ==
  \E p \in {pending[i]} : \E c \in {handleRequestResume(Self, p.request, out)} :
     /\ initialized' = (c.initialized /\ out.kind # "throw")
     /\ reqText' = p.text
     /\ pending' = SubSeq(pending, 1, i - 1) \o SubSeq(pending, i + 1, Len(pending))
     /\ phase' = "completed"
     /\ response' = (IF c.kind = "return" THEN c.val ELSE Undefined)
     /\ raised' = (c.kind = "throw")
     /\ invoked' = <<>>
     /\ toolOutcome' = out
     /\ branch' = c.branch
     /\ wasInitialized' = initialized
     /\ UNCHANGED <<options, tools, toolRegistry, initCount>>

\* the tool of the i-th suspended tools/call completes with `out` and the call
\* runs to its return
Resume(i, out) ==
  \E p \in {pending[i]} : \E c \in {handleRequestResume(Self, p.request, out)} :
     /\ initialized' = c.initialized
     /\ reqText' = p.text
     /\ pending' = SubSeq(pending, 1, i - 1) \o SubSeq(pending, i + 1, Len(pending))
     /\ phase' = "completed"
     /\ response' = (IF c.kind = "return" THEN c.val ELSE Undefined)
     /\ raised' = (c.kind = "throw")
     /\ invoked' = <<>>
     /\ toolOutcome' = out
     /\ branch' = c.branch
     /\ wasInitialized' = initialized
     /\ UNCHANGED <<options, tools, toolRegistry, initCount>>

Complete(i, out) == Resume(i, out) /\ UNCHANGED <<http, probe, peer>>

Next ==
  \/ \E text \in Texts : Handle(text)
  \/ \E i \in 1..Len(pending) : \E out \in ToolOutcomes : Complete(i, out)

Spec == Init /\ [][Next]_vars

(***************************************************************************)
(* Concurrent use of one session: several tools/call requests are          *)
(* suspended in their tools while further requests are handled             *)
(***************************************************************************)
\* the most tools/call requests suspended at once in SpecConcurrent
MaxConcurrent == 2

\* requests with distinct ids, so that a response tells which request it answers
ConcurrentRequests ==
  {Req(Num(1), Str("initialize"), Undefined),
   Req(Num(2), Str("initialized"), Undefined),
   Req(Num(3), Str("tools/list"), Undefined),
   Req(Num(4), Str("tools/call"), Obj([name |-> Str("toolA"),
                                       arguments |-> Obj([x |-> Num(1)])])),
   Req(Num(5), Str("tools/call"), Obj([name |-> Str("toolB")])),
   Req(Undefined, Str("tools/call"), Obj([name |-> Str("toolA")])),
   Req(Num(6), Str("tools/call"), Obj([name |-> Str("missingTool")])),
   Req(Num(7), Str("tools/call"), Undefined),
   Req(Num(8), Str("tools/call"), Obj([name |-> Num(1)])),
   Req(Num(9), Str("foo"), Undefined),
   Obj([id |-> Num(10), method |-> Str("tools/list")])}

ConcurrentTexts ==
  {Tokens(v) : v \in ConcurrentRequests} \cup {<<P("{"), TStr("jsonrpc")>>}

ConcurrentOutcomes ==
  {Return(Str("hello")), Return(Obj([sum |-> Num(3)])),
   Throw(Error("boom")), Throw(NonError(Str("oops")))}

HandleConcurrent(text) == Submit(text, MaxConcurrent) /\ UNCHANGED <<http, probe, peer>>

NextConcurrent ==
  \/ \E text \in ConcurrentTexts : HandleConcurrent(text)
  \/ \E i \in 1..Len(pending) : \E out \in ConcurrentOutcomes : Complete(i, out)

SpecConcurrent == Init /\ [][NextConcurrent]_vars

(***************************************************************************)
(* createErrorResponse called directly, with every kind of data            *)
(***************************************************************************)
ErrorIds == {Null, Num(0), Num(7), Str("a"), Str("")}
ErrorCodes == {ParseError, InvalidRequest, MethodNotFound, InvalidParams,
               InternalError, -32000}
ErrorMessages == {"", "Invalid JSON", "Tool not found: toolA"}
\* the data of a JsonRpcError: not given, or any value
ErrorData == {Undefined, Null, Num(0), Str(""), Bool(FALSE), EmptyObj, Arr(<<>>),
              Obj([server |-> Str("X")])}

\* createErrorResponse(id, error) is called and returns
CallCreateErrorResponse(id, error) ==
  /\ probe' = [fn |-> "createErrorResponse", id |-> id, error |-> error,
               result |-> createErrorResponse(id, error)]
  /\ UNCHANGED <<options, tools, toolRegistry, initialized, pending, phase,
                 reqText, response, raised, invoked, toolOutcome, branch,
                 initCount, wasInitialized, http, peer>>

NextErrorResponse ==
  \E id \in ErrorIds, code \in ErrorCodes, message \in ErrorMessages,
     data \in ErrorData :
    CallCreateErrorResponse(id, JsonRpcError(code, message, data))

SpecErrorResponse == Init /\ [][NextErrorResponse]_vars

(***************************************************************************)
(* The HTTP adapters (netlify-handler.ts, mcp-wrapper.ts).  Each adapter   *)
(* constructs its own McpServer and maps every event to an HTTP response.  *)
(* A body is null or a string, the string being the tokens of its text.    *)
(***************************************************************************)
Adapters == {"createMcpHandler", "defaultMcpHandler"}

HttpMethods == {"OPTIONS", "POST", "GET", "DELETE"}

\* the bodies of the events: none, the empty string, and request texts
HttpBodies ==
  {Null, Text(<<>>), Text(<<P("{"), TStr("jsonrpc")>>)}
    \cup {Text(Tokens(v)) :
            v \in {Req(Num(1), Str("initialize"), Undefined),
                   Req(Num(3), Str("tools/list"), Undefined),
                   Req(Num(4), Str("tools/call"), Obj([name |-> Str("toolA")]))}}

HttpEvents == [httpMethod : HttpMethods, body : HttpBodies]

\* JSON.stringify(v) of a value that has a JSON text
Stringified(v) == JSONStringify(v).val

\* what JSON.stringify writes for the McpServer instance: its own fields; the
\* Map is written as {} and the handler functions of the tools are left out
ServerJson(self) ==
  Obj([initialized |-> Bool(self.initialized),
       tools |-> Arr(ListedTools(self.tools)),
       toolRegistry |-> EmptyObj,
       options |-> Obj([name |-> Str(self.options.name),
                        version |-> Str(self.options.version)])])

\* the response to a CORS preflight
Preflight ==
  [statusCode |-> 200,
   headers |-> ("Access-Control-Allow-Origin" :> "*")
                 @@ ("Access-Control-Allow-Methods" :> "POST, OPTIONS")
                 @@ ("Access-Control-Allow-Headers" :> "Content-Type, Accept")
                 @@ ("Access-Control-Max-Age" :> "86400"),
   body |-> Text(<<>>)]

MethodNotAllowed(adapter, self) ==
  [statusCode |-> 405,
   headers |-> ("Content-Type" :> "application/json") @@ ("Allow" :> "POST"),
   body |-> Stringified(
              Obj([error |-> Str("Method not allowed. Use POST for MCP requests."),
                   server |-> IF adapter = "createMcpHandler"
                              THEN Str(self.options.name) ELSE ServerJson(self)]))]

BodyRequired(adapter, self) ==
  [statusCode |-> 400,
   headers |-> ("Content-Type" :> "application/json"),
   body |-> Stringified(
              Obj(IF adapter = "createMcpHandler"
                  THEN [error |-> Str("Request body is required"),
                        server |-> Str(self.options.name)]
                  ELSE [error |-> Str("Request body is required")]))]

\* the response that carries what handleRequest returned
Delivered(resp) ==
  [statusCode |-> 200,
   headers |-> ("Content-Type" :> "application/json")
                 @@ ("Access-Control-Allow-Origin" :> "*")
                 @@ ("Access-Control-Allow-Methods" :> "POST, OPTIONS")
                 @@ ("Access-Control-Allow-Headers" :> "Content-Type, Accept"),
   body |-> Stringified(resp)]

\* the response of the catch around handleRequest; the text of the failure in
\* data.error is not modelled
ServerError(adapter, self) ==
  [statusCode |-> 500,
   headers |-> ("Content-Type" :> "application/json"),
   body |-> Stringified(
              Obj([jsonrpc |-> Str("2.0"), id |-> Null,
                   error |-> Obj([code |-> Num(InternalError),
                                  message |-> Str("Internal server error"),
                                  data |-> IF adapter = "createMcpHandler"
                                           THEN Obj([server |-> Str(self.options.name)])
                                           ELSE EmptyObj])]))]

\* variant: the body is looked at before the method
adapterBefore_BodyFirst(adapter, self, event) ==
  IF event.httpMethod = "OPTIONS" THEN Preflight
  ELSE IF ~Truthy(event.body) THEN BodyRequired(adapter, self)
  ELSE IF event.httpMethod # "POST" THEN MethodNotAllowed(adapter, self)
  ELSE Undefined

\* the handler up to its call of handleRequest: the response it returns
\* without calling it, undefined if it calls it
adapterBefore(adapter, self, event) ==
  IF event.httpMethod = "OPTIONS" THEN Preflight
  ELSE IF event.httpMethod # "POST" THEN MethodNotAllowed(adapter, self)
  ELSE IF ~Truthy(event.body) THEN BodyRequired(adapter, self)
  ELSE Undefined

\* variant: an error response is sent with the status of a server error
adapterAfter_ErrorAs500(adapter, self, threw, resp) ==
  IF threw \/ (resp.t = "object" /\ "error" \in DOMAIN resp.o)
  THEN ServerError(adapter, self) ELSE Delivered(resp)

\* the handler after handleRequest has returned resp or has thrown
adapterAfter(adapter, self, threw, resp) ==
  IF threw THEN ServerError(adapter, self) ELSE Delivered(resp)

\* buildTools names the tools by the keys of an object: no name occurs twice
InitHttp ==
  /\ InitServer
  /\ \A i, j \in 1..Len(tools) : tools[i].name = tools[j].name => i = j
  /\ http \in [adapter : Adapters, event : {Undefined}, result : {Undefined}]
  /\ probe = NoProbe
  /\ peer = NoPeer

\* the adapter answers an event without calling the server
HttpReject(event) ==
  /\ \E r \in {adapterBefore(http.adapter, Self, event)} :
       /\ r # Undefined
       /\ http' = [http EXCEPT !.event = event, !.result = r]
  /\ UNCHANGED <<options, tools, toolRegistry, initialized, pending, phase,
                 reqText, response, raised, invoked, toolOutcome, branch,
                 initCount, wasInitialized, probe, peer>>

\* the adapter passes the body of an event to handleRequest, and answers when
\* handleRequest returns; while a tool runs there is no answer yet
HttpPost(event) ==
  /\ adapterBefore(http.adapter, Self, event) = Undefined
  /\ Submit(event.body.j, MaxPending)
  /\ http' = [http EXCEPT !.event = event,
                          !.result = IF phase' = "suspended" THEN Undefined
                                     ELSE adapterAfter(http.adapter, Self,
                                                       raised', response')]
  /\ UNCHANGED <<probe, peer>>

\* the tool of a suspended call completes and the adapter answers its event
HttpComplete(i, out) ==
  /\ Resume(i, out)
  /\ http' = [http EXCEPT !.event = [httpMethod |-> "POST",
                                     body |-> Text(pending[i].text)],
                          !.result = adapterAfter(http.adapter, Self,
                                                  raised', response')]
  /\ UNCHANGED <<probe, peer>>

NextHttp ==
  \/ \E event \in HttpEvents : HttpReject(event)
  \/ \E event \in HttpEvents : HttpPost(event)
  \/ \E i \in 1..Len(pending) : \E out \in ToolOutcomes : HttpComplete(i, out)

SpecHttp == InitHttp /\ [][NextHttp]_vars

(***************************************************************************)
(* Two handlers.  createMcpHandler and withMcpHandler construct a server   *)
(* when they are called and return a handler that closes over it; a second *)
(* call constructs a second server.  The variable peer holds the second    *)
(* handler: its adapter, its server and its latest event and response.     *)
(***************************************************************************)
\* the events sent to the two handlers
HandlerEvents ==
  {[httpMethod |-> "GET", body |-> Null]}
    \cup {[httpMethod |-> "POST", body |-> Text(Tokens(v))] :
            v \in {Req(Num(1), Str("initialize"), Undefined),
                   Req(Num(3), Str("tools/list"), Undefined),
                   Req(Num(4), Str("tools/call"), Obj([name |-> Str("toolA")]))}}

HandlerOutcomes == {Return(Str("hello")), Throw(Error("boom"))}

\* variant: the flag is a variable of the module, one for all servers
PeerSelf_SharedFlag ==
  [options |-> peer.options, tools |-> peer.tools,
   toolRegistry |-> peer.toolRegistry, initialized |-> initialized]

\* the server the second handler closes over
PeerSelf ==
  [options |-> peer.options, tools |-> peer.tools,
   toolRegistry |-> peer.toolRegistry, initialized |-> peer.initialized]

\* the first handler is created, and then the second: each call builds the
\* tools and constructs a server of its own
InitHandlers ==
  /\ options \in OptionSet
  /\ tools = <<ToolA>>
  /\ Constructed
  /\ http \in [adapter : Adapters, event : {Undefined}, result : {Undefined}]
  /\ probe = NoProbe
  /\ peer \in [adapter : Adapters, options : OptionSet, tools : {<<ToolA>>},
               toolRegistry : {RegistryOf(<<ToolA>>, <<>>)},
               initialized : {FALSE}, pending : {<<>>}, opened : {FALSE},
               event : {Undefined}, result : {Undefined}]

\* the second handler answers an event without calling its server
PeerReject(event) ==
  /\ \E r \in {adapterBefore(peer.adapter, PeerSelf, event)} :
       /\ r # Undefined
       /\ peer' = [peer EXCEPT !.event = event, !.result = r]
  /\ UNCHANGED <<options, tools, toolRegistry, initialized, pending, phase,
                 reqText, response, raised, invoked, toolOutcome, branch,
                 initCount, wasInitialized, http, probe>>

\* the second handler passes the body of an event to handleRequest of its
\* server, and answers when handleRequest returns; peer.opened records that
\* this server has handled an initialize request
PeerPost(event) ==
  /\ adapterBefore(peer.adapter, PeerSelf, event) = Undefined
  /\ \E c \in {handleRequest(PeerSelf, event.body.j)} :
       /\ c.kind = "await" => Len(peer.pending) < MaxPending
       /\ peer' = [peer EXCEPT
                     !.initialized = c.initialized,
                     !.opened = @ \/ c.branch = "initialize",
                     !.pending = IF c.kind = "await"
                                 THEN Append(@, [event |-> event,
                                                 request |-> c.request])
                                 ELSE @,
                     !.event = event,
                     !.result = IF c.kind = "await" THEN Undefined
                                ELSE adapterAfter(peer.adapter, PeerSelf,
                                                  c.kind = "throw",
                                                  IF c.kind = "return" THEN c.val
                                                  ELSE Undefined)]
  /\ UNCHANGED <<options, tools, toolRegistry, initialized, pending, phase,
                 reqText, response, raised, invoked, toolOutcome, branch,
                 initCount, wasInitialized, http, probe>>

\* the tool of a call suspended in the second server completes and the second
\* handler answers the event of that call
PeerComplete(i, out) ==
  /\ \E p \in {peer.pending[i]} :
       \E c \in {handleRequestResume(PeerSelf, p.request, out)} :
         peer' = [peer EXCEPT
                    !.initialized = c.initialized,
                    !.pending = SubSeq(@, 1, i - 1) \o SubSeq(@, i + 1, Len(@)),
                    !.event = p.event,
                    !.result = adapterAfter(peer.adapter, PeerSelf,
                                            c.kind = "throw",
                                            IF c.kind = "return" THEN c.val
                                            ELSE Undefined)]
  /\ UNCHANGED <<options, tools, toolRegistry, initialized, pending, phase,
                 reqText, response, raised, invoked, toolOutcome, branch,
                 initCount, wasInitialized, http, probe>>

NextHandlers ==
  \/ \E event \in HandlerEvents : HttpReject(event)
  \/ \E event \in HandlerEvents : HttpPost(event)
  \/ \E i \in 1..Len(pending) : \E out \in HandlerOutcomes : HttpComplete(i, out)
  \/ \E event \in HandlerEvents : PeerReject(event)
  \/ \E event \in HandlerEvents : PeerPost(event)
  \/ \E i \in 1..Len(peer.pending) : \E out \in HandlerOutcomes : PeerComplete(i, out)

SpecHandlers == InitHandlers /\ [][NextHandlers]_vars

(***************************************************************************)
(* buildTools and buildRegistry (buildTools.ts).  A module is an object    *)
(* that may export metadata and handler; a module map is an object whose   *)
(* keys are held in property order.                                        *)
(***************************************************************************)
\* a function value
Fn(f) == [t |-> "function", f |-> f]

\* the most modules in a module map
MaxModules == 2

ModuleKeys == {"helloWorld", "weather", "add"}

ModHello ==
  Obj([metadata |-> Obj([description |-> Str("says hello"),
                         inputSchema |-> Obj([type |-> Str("object")])]),
       handler |-> Fn("hello")])
\* the metadata declares a name of its own
ModNamed ==
  Obj([metadata |-> Obj([name |-> Str("renamed"),
                         description |-> Str("has a name"),
                         inputSchema |-> EmptyObj]),
       handler |-> Fn("named")])
\* a description that is no string, no schema, no handler
ModLoose == Obj([metadata |-> Obj([description |-> Num(5)])])
\* no metadata is exported
ModBare == Obj([handler |-> Fn("bare")])

Modules == {ModHello, ModNamed, ModLoose, ModBare}

\* the orders in which up to MaxModules distinct keys are held
KeyOrders ==
  {o \in UNION {[1..n -> ModuleKeys] : n \in 0..MaxModules} :
     \A i, j \in 1..Len(o) : o[i] = o[j] => i = j}

\* Record<string, any>: the keys in property order and the module at each key
ModuleMaps ==
  UNION {{[order |-> o, at |-> f] : f \in [{o[i] : i \in 1..Len(o)} -> Modules]} :
           o \in KeyOrders}

\* Object.entries(mods)
ObjectEntries(mods) ==
  [i \in 1..Len(mods.order) |-> <<mods.order[i], mods.at[mods.order[i]]>>]

\* variant: a name declared in the metadata is preferred to the key
buildTools_NameFromMetadata(mods) ==
  LET entries == ObjectEntries(mods)
      nameOf(e) == IF TypeOf(Get(Get(e[2], "metadata"), "name")) = "string"
                   THEN Get(Get(e[2], "metadata"), "name").s ELSE e[1]
  IN IF \E i \in 1..Len(entries) :
          Get(entries[i][2], "metadata").t \in {"undefined", "null"}
     THEN Throw(Error("Cannot read properties of undefined (reading 'description')"))
     ELSE Return([i \in 1..Len(entries) |->
                    [name |-> nameOf(entries[i]),
                     description |-> Get(Get(entries[i][2], "metadata"), "description"),
                     inputSchema |-> Get(Get(entries[i][2], "metadata"), "inputSchema"),
                     handler |-> Get(entries[i][2], "handler")]])

\* buildTools(mods): the tools, or the TypeError of reading a property of a
\* metadata that is undefined or null
buildTools(mods) ==
  LET entries == ObjectEntries(mods)
  IN IF \E i \in 1..Len(entries) :
          Get(entries[i][2], "metadata").t \in {"undefined", "null"}
     THEN Throw(Error("Cannot read properties of undefined (reading 'description')"))
     ELSE Return([i \in 1..Len(entries) |->
                    [name |-> entries[i][1],
                     description |-> Get(Get(entries[i][2], "metadata"), "description"),
                     inputSchema |-> Get(Get(entries[i][2], "metadata"), "inputSchema"),
                     handler |-> Get(entries[i][2], "handler")]])

RECURSIVE ObjectFromEntries(_, _)
\* Object.fromEntries(entries): each entry is written in turn as an own
\* property, over an earlier one of the same key
ObjectFromEntries(entries, obj) ==
  IF Len(entries) = 0 THEN obj
  ELSE ObjectFromEntries(Tail(entries),
                         (Head(entries)[1] :> Head(entries)[2]) @@ obj)

\* buildRegistry(tools): the own properties of the object it returns
buildRegistry(ts) ==
  ObjectFromEntries([i \in 1..Len(ts) |-> <<ts[i].name, ts[i]>>], <<>>)

\* tool sequences in which a name occurs more than once, in several positions
BuildToolSeqs ==
  ToolSeqs \cup {<<ToolA2, ToolA>>, <<ToolA, ToolB, ToolA2>>, <<ToolA2, ToolB, ToolA>>,
                 <<ToolA, ToolA2, ToolB>>}

\* the requests sent to a server constructed from such a sequence
RegistryTexts ==
  {Tokens(v) : v \in {Req(Num(1), Str("initialize"), Undefined),
                      Req(Num(3), Str("tools/list"), Undefined),
                      Req(Num(4), Str("tools/call"), Obj([name |-> Str("toolA")])),
                      Req(Num(5), Str("tools/call"), Obj([name |-> Str("toolB")]))}}

RegistryOutcomes == {Return(Str("hello")), Throw(Error("boom"))}

\* new McpServer(options, tools) on a sequence that may repeat a name
InitRegistry ==
  /\ options \in OptionSet
  /\ tools \in BuildToolSeqs
  /\ Constructed
  /\ http = NoHttp
  /\ probe = NoProbe
  /\ peer = NoPeer

\* buildRegistry(ts) is called and returns
CallBuildRegistry(ts) ==
  /\ probe' = [fn |-> "buildRegistry", tools |-> ts, result |-> buildRegistry(ts)]
  /\ UNCHANGED <<options, tools, toolRegistry, initialized, pending, phase,
                 reqText, response, raised, invoked, toolOutcome, branch,
                 initCount, wasInitialized, http, peer>>

NextRegistry ==
  \/ \E text \in RegistryTexts : Handle(text)
  \/ \E i \in 1..Len(pending) : \E out \in RegistryOutcomes : Complete(i, out)
  \/ \E ts \in BuildToolSeqs : CallBuildRegistry(ts)

SpecRegistry == InitRegistry /\ [][NextRegistry]_vars

\* buildTools(mods) is called and returns or throws
CallBuildTools(mods) ==
  /\ probe' = [fn |-> "buildTools", mods |-> mods, result |-> buildTools(mods)]
  /\ UNCHANGED <<options, tools, toolRegistry, initialized, pending, phase,
                 reqText, response, raised, invoked, toolOutcome, branch,
                 initCount, wasInitialized, http, peer>>

NextBuildTools == \E mods \in ModuleMaps : CallBuildTools(mods)

SpecBuildTools == Init /\ [][NextBuildTools]_vars

(***************************************************************************)
(* The REST handler of the example site (examples/.../mcp/mcp.ts).  The    *)
(* module builds tools and toolRegistry when it is loaded; the handler     *)
(* serves GET .../mcp/listTools and POST .../mcp/callTool.  Here           *)
(* toolRegistry is the plain object buildRegistry returns, pending holds   *)
(* the invocations suspended at `await toolDef.handler(params)`, and http  *)
(* the latest event and its response.                                      *)
(***************************************************************************)
\* the properties every plain object inherits from Object.prototype
ObjectPrototypeKeys ==
  {"constructor", "toString", "toLocaleString", "valueOf", "hasOwnProperty",
   "isPrototypeOf", "propertyIsEnumerable", "__proto__"}

\* the property key a value used as `obj[v]` is converted to
PropertyKey(v) ==
  CASE v.t = "string" -> v.s
    [] v.t = "undefined" -> "undefined"
    [] v.t = "null" -> "null"
    [] v.t = "boolean" -> IF v.b THEN "true" ELSE "false"
    [] v.t = "number" -> ToString(v.n)
    [] OTHER -> "[object Object]"

\* obj[key] of a plain object whose own properties are obj: an own property,
\* or one inherited from Object.prototype (a function, or for __proto__ the
\* prototype itself), or undefined
PlainGet(obj, key) ==
  IF key \in DOMAIN obj THEN obj[key]
  ELSE IF key = "__proto__" THEN EmptyObj
  ELSE IF key \in ObjectPrototypeKeys THEN Fn(key)
  ELSE Undefined

\* toolDef.handler of whatever the lookup found
HandlerOf(toolDef) ==
  IF "handler" \in DOMAIN toolDef THEN toolDef.handler ELSE Undefined

\* the tool modules of a site: every one exports metadata, or the load fails
LegacyModuleMaps ==
  {[order |-> <<>>, at |-> <<>>],
   [order |-> <<"helloWorld">>, at |-> [helloWorld |-> ModHello]],
   [order |-> <<"helloWorld", "weather">>,
    at |-> [helloWorld |-> ModHello, weather |-> ModNamed]],
   [order |-> <<"weather", "helloWorld">>,
    at |-> [helloWorld |-> ModHello, weather |-> ModLoose]]}

LegacyPaths == {"/mcp/listTools", "/.netlify/functions/mcp/callTool", "/mcp"}

\* the bodies of the events: none, empty, not JSON, and JSON texts
LegacyBodies ==
  {Null, Text(<<>>), Text(<<P("{"), TStr("tool")>>), Text(<<TLit("null")>>),
   Text(<<TNum(5)>>)}
    \cup {Text(Tokens(v)) :
            v \in {EmptyObj,
                   Obj([tool |-> Str("helloWorld"),
                        params |-> Obj([name |-> Str("Rob")])]),
                   Obj([tool |-> Str("weather")]),
                   Obj([tool |-> Str("nope")]),
                   Obj([tool |-> Str("toString")]),
                   Obj([tool |-> Str("")]),
                   Obj([tool |-> Num(1)]),
                   Obj([params |-> EmptyObj])}}

LegacyEvents == [httpMethod : {"GET", "POST"}, path : LegacyPaths, body : LegacyBodies]

LegacyOutcomes ==
  {Return(Str("hello")), Return(Circular), Throw(Error("boom")),
   Throw(NonError(Str("oops")))}

\* the response of the catch: err.message is undefined when err is no Error
LegacyFailure(e) ==
  [statusCode |-> 500,
   body |-> Stringified(Obj([error |-> IF IsError(e) THEN Str(e.message)
                                       ELSE Undefined]))]

\* the handler up to its return or to `await toolDef.handler(params)`
legacyHandler(ts, reg, event) ==
  IF event.httpMethod = "GET" /\ Includes(event.path, "/mcp/listTools")
  THEN Return([statusCode |-> 200,
               headers |-> ("Content-Type" :> "application/json"),
               body |-> Stringified(Obj([version |-> Str("1.0"),
                                         tools |-> Arr(ListedTools(ts))]))])
  ELSE IF event.httpMethod = "POST" /\ Includes(event.path, "/mcp/callTool")
  THEN LET parsed == JSONParse(IF Truthy(event.body) THEN event.body.j
                               ELSE <<P("{"), P("}")>>)
           toolDef == PlainGet(reg, PropertyKey(Get(parsed.val, "tool")))
       IN IF ~parsed.ok
          THEN Return(LegacyFailure(Error("Unexpected token in JSON")))
          ELSE IF parsed.val.t = "null"
          THEN Return(LegacyFailure(
                        Error("Cannot destructure property 'tool' of null")))
          ELSE IF toolDef = Undefined
          THEN Return([statusCode |-> 404,
                       body |-> Stringified(Obj([error |-> Str("Unknown tool")]))])
          ELSE IF HandlerOf(toolDef).t # "function"
          THEN Return(LegacyFailure(Error("toolDef.handler is not a function")))
          ELSE [kind |-> "await", tool |-> toolDef,
                args |-> Get(parsed.val, "params")]
  ELSE Return([statusCode |-> 404,
               body |-> Stringified(Obj([error |-> Str("Not Found")]))])

\* the handler from the await on, the tool having completed with `out`
legacyHandlerResume(out) ==
  IF out.kind = "throw" THEN LegacyFailure(out.err)
  ELSE IF out.val = Circular
  THEN LegacyFailure(Error("Converting circular structure to JSON"))
  ELSE [statusCode |-> 200,
        headers |-> ("Content-Type" :> "application/json"),
        body |-> Stringified(Obj([content |-> out.val]))]

\* the module has been loaded: tools = buildTools(toolModules) has returned
\* and toolRegistry = buildRegistry(tools); there is no McpServer
InitLegacy ==
  /\ options = [name |-> "", version |-> ""]
  /\ \E mods \in LegacyModuleMaps : tools = buildTools(mods).val
  /\ toolRegistry = buildRegistry(tools)
  /\ initialized = FALSE
  /\ pending = <<>>
  /\ phase = "init"
  /\ reqText = <<>>
  /\ response = Undefined
  /\ raised = FALSE
  /\ invoked = <<>>
  /\ toolOutcome = Undefined
  /\ branch = "none"
  /\ initCount = 0
  /\ wasInitialized = FALSE
  /\ http = [adapter |-> "legacy", event |-> Undefined, result |-> Undefined]
  /\ probe = NoProbe
  /\ peer = NoPeer

\* the handler is invoked with an event and runs to its return or to the await
LegacyHandle(event) ==
  /\ \E c \in {legacyHandler(tools, toolRegistry, event)} :
       /\ c.kind = "await" => Len(pending) < MaxPending
       /\ IF c.kind = "await"
          THEN /\ pending' = Append(pending, [event |-> event, tool |-> c.tool,
                                              args |-> c.args])
               /\ phase' = "suspended"
               /\ invoked' = <<[tool |-> c.tool, args |-> c.args]>>
               /\ http' = [http EXCEPT !.event = event, !.result = Undefined]
          ELSE /\ pending' = pending
               /\ phase' = "handled"
               /\ invoked' = <<>>
               /\ http' = [http EXCEPT !.event = event, !.result = c.val]
  /\ toolOutcome' = Undefined
  /\ UNCHANGED <<options, tools, toolRegistry, initialized, reqText, response,
                 raised, branch, initCount, wasInitialized, probe, peer>>

\* the tool of a suspended invocation completes and the handler returns
LegacyComplete(i, out) ==
  /\ http' = [http EXCEPT !.event = pending[i].event,
                          !.result = legacyHandlerResume(out)]
  /\ pending' = SubSeq(pending, 1, i - 1) \o SubSeq(pending, i + 1, Len(pending))
  /\ phase' = "completed"
  /\ invoked' = <<>>
  /\ toolOutcome' = out
  /\ UNCHANGED <<options, tools, toolRegistry, initialized, reqText, response,
                 raised, branch, initCount, wasInitialized, probe, peer>>

NextLegacy ==
  \/ \E event \in LegacyEvents : LegacyHandle(event)
  \/ \E i \in 1..Len(pending) : \E out \in LegacyOutcomes : LegacyComplete(i, out)

SpecLegacy == InitLegacy /\ [][NextLegacy]_vars

(***************************************************************************)
(* What the claims speak of                                                *)
(***************************************************************************)
\* the latest step returned from handleRequest
Returned == phase \in {"handled", "completed"}
\* the latest step was a call of handleRequest
HandleStep == phase \in {"handled", "suspended"}

\* the value the latest text denotes, when it is JSON
ReqValue == JSONParse(reqText).val

\* the latest text is JSON and a request envelope: an object with the
\* protocol tag "2.0" and a string method
IsEnvelope ==
  /\ JSONParse(reqText).ok
  /\ ReqValue.t = "object"
  /\ "jsonrpc" \in DOMAIN ReqValue.o
  /\ ReqValue.o.jsonrpc = Str("2.0")
  /\ "method" \in DOMAIN ReqValue.o
  /\ ReqValue.o.method.t = "string"

MethodIs(m) == IsEnvelope /\ ReqValue.o.method = Str(m)

\* the id a response to the latest request echoes: the request's, null if none
EchoedId ==
  IF "id" \in DOMAIN ReqValue.o /\ ReqValue.o.id # Null THEN ReqValue.o.id ELSE Null

\* the params of the latest request, undefined if none
ReqParams == IF "params" \in DOMAIN ReqValue.o THEN ReqValue.o.params ELSE Undefined

\* the latest request's params.name is the string n
NamesTool(n) ==
  /\ ReqParams.t = "object"
  /\ "name" \in DOMAIN ReqParams.o
  /\ ReqParams.o.name = Str(n)

HasMember(r, k) == r.t = "object" /\ k \in DOMAIN r.o /\ r.o[k] # Undefined

IsSuccessResponse(r) ==
  HasMember(r, "result") /\ ~HasMember(r, "error") /\ r.o.jsonrpc = Str("2.0")

IsErrorResponse(r, code) ==
  /\ HasMember(r, "error") /\ ~HasMember(r, "result")
  /\ r.o.jsonrpc = Str("2.0")
  /\ HasMember(r.o.error, "code")
  /\ r.o.error.o.code = Num(code)

ErrorResponse(id, code, message) ==
  Obj([jsonrpc |-> Str("2.0"), id |-> id,
       error |-> Obj([code |-> Num(code), message |-> Str(message)])])

RegisteredNames == {tools[i].name : i \in 1..Len(tools)}

(***************************************************************************)
(* Claims                                                                  *)
(***************************************************************************)
\* C1: whenever handleRequest has returned (at once, or after the tool it
\* invoked returned or failed), it returned a response object and its promise
\* did not reject.
C1_AlwaysResponds ==
  Returned => (~raised /\ response # Undefined /\ response.t = "object")

\* a tool that threw a value that is no Error has been answered
C1_Witness ==
  /\ phase = "completed"
  /\ toolOutcome.kind = "throw"
  /\ ~IsError(toolOutcome.err)
  /\ response # Undefined

\* C2: every response handleRequest returns has the protocol tag "2.0" and
\* exactly one of result and error.
C2_ResultXorError ==
  response # Undefined =>
    /\ HasMember(response, "jsonrpc")
    /\ response.o.jsonrpc = Str("2.0")
    /\ HasMember(response, "result") # HasMember(response, "error")

\* an error response after two initialize requests and a tool call
C2_Witness ==
  phase = "completed" /\ initCount = 2 /\ HasMember(response, "error")

\* C3: a text that is not JSON (the empty text included) is answered, in
\* either session state, with an error of code -32700 and id null.
C3_ParseError ==
  (HandleStep /\ (reqText \in BrokenTexts \/ ~JSONParse(reqText).ok)) =>
    /\ phase = "handled"
    /\ IsErrorResponse(response, -32700)
    /\ response.o.id = Null

\* the empty text, sent to an initialized session
C3_Witness ==
  phase = "handled" /\ reqText = <<>> /\ wasInitialized /\ response # Undefined

\* the value of the latest text is no request envelope: no object, or the
\* method is missing or no string, or the protocol tag is missing or not "2.0"
NotEnvelope ==
  \/ ReqValue.t # "object"
  \/ "method" \notin DOMAIN ReqValue.o
  \/ ReqValue.o.method.t # "string"
  \/ "jsonrpc" \notin DOMAIN ReqValue.o
  \/ ReqValue.o.jsonrpc # Str("2.0")

\* C4: a JSON text that is no request envelope is answered with an error of
\* code -32600 and id null, whatever id it carries, and no handler runs: the
\* flag is as before and no tool is invoked.
C4_InvalidEnvelope ==
  (HandleStep /\ JSONParse(reqText).ok /\ NotEnvelope) =>
    /\ phase = "handled"
    /\ IsErrorResponse(response, -32600)
    /\ response.o.id = Null
    /\ branch = "none"
    /\ invoked = <<>>
    /\ initialized = wasInitialized

\* an object with an id and the right tag, but no method
C4_Witness ==
  /\ phase = "handled"
  /\ JSONParse(reqText).ok
  /\ ReqValue.t = "object"
  /\ DOMAIN ReqValue.o = {"jsonrpc", "id"}
  /\ ReqValue.o.id = Num(7)
  /\ response # Undefined

\* C5: while the session is uninitialized, every tools/list and tools/call
\* request is answered with an error of code -32600, the flag stays false and
\* no tool is invoked.
C5_RejectedBeforeInitialize ==
  (HandleStep /\ ~wasInitialized /\ (MethodIs("tools/list") \/ MethodIs("tools/call"))) =>
    /\ phase = "handled"
    /\ IsErrorResponse(response, -32600)
    /\ ~initialized
    /\ invoked = <<>>

\* a tools/call naming a registered tool, sent before initialize
C5_Witness ==
  /\ phase = "handled"
  /\ ~wasInitialized
  /\ MethodIs("tools/call")
  /\ NamesTool("toolA")
  /\ "toolA" \in RegisteredNames

\* C6: the session starts uninitialized, and no step takes the flag from true
\* back to false.
C6_Monotonic ==
  /\ phase = "init" => ~initialized
  /\ wasInitialized => initialized

\* a request rejected by an initialized session
C6_Witness ==
  /\ wasInitialized
  /\ phase = "handled"
  /\ HasMember(response, "error")

\* C7: initialize succeeds in every session state and for every params: the
\* response echoes the id, its result is exactly the fixed protocol version,
\* the tools capability and the name and version given at construction, and the
\* session is initialized afterwards.
C7_Initialize ==
  (HandleStep /\ MethodIs("initialize")) =>
    /\ phase = "handled"
    /\ response =
         Obj([jsonrpc |-> Str("2.0"),
              id |-> EchoedId,
              result |-> Obj([protocolVersion |-> Str("2024-11-05"),
                              capabilities |-> Obj([tools |-> Obj(<<>>)]),
                              serverInfo |-> Obj([name |-> Str(options.name),
                                                  version |-> Str(options.version)])])])
    /\ initialized

\* an initialize naming another protocol version, sent to an initialized session
C7_Witness ==
  /\ phase = "handled"
  /\ MethodIs("initialize")
  /\ wasInitialized
  /\ HasMember(ReqParams, "protocolVersion")
  /\ ReqParams.o.protocolVersion = Str("1.0")

\* the response the latest request gets from a server of the same construction
\* that has handled exactly one initialize and nothing else
ResponseAfterOneInitialize ==
  LET fresh == [options |-> options, tools |-> tools,
                toolRegistry |-> RegistryOf(tools, <<>>), initialized |-> FALSE]
      first == handleRequest(fresh, Tokens(Req(Num(7), Str("initialize"), Undefined)))
      one == [fresh EXCEPT !.initialized = first.initialized]
      c == handleRequest(one, reqText)
  IN IF c.kind = "await"
     THEN handleRequestResume(one, c.request, toolOutcome).val
     ELSE c.val

\* C8: after two or more initialize requests, a tools/list or tools/call gets
\* the response it gets after exactly one, and an initialize gets a success.
C8_InitializeIdempotent ==
  initCount >= 2 =>
    /\ (phase = "handled" /\ MethodIs("initialize")) => IsSuccessResponse(response)
    /\ (Returned /\ (MethodIs("tools/list") \/ MethodIs("tools/call"))) =>
         response = ResponseAfterOneInitialize

\* a tool call answered with the tool's result after two initialize requests
C8_Witness ==
  /\ initCount = 2
  /\ phase = "completed"
  /\ MethodIs("tools/call")
  /\ IsSuccessResponse(response)

\* C9: in the initialized state tools/list succeeds, echoes the id, and lists
\* the tools given at construction in their order, each as exactly its name,
\* description and inputSchema.
C9_ToolsList ==
  (HandleStep /\ wasInitialized /\ MethodIs("tools/list")) =>
    /\ phase = "handled"
    /\ IsSuccessResponse(response)
    /\ response.o.id = EchoedId
    /\ response.o.result.t = "object"
    /\ DOMAIN response.o.result.o = {"tools"}
    /\ response.o.result.o.tools.t = "array"
    /\ LET list == response.o.result.o.tools.a
       IN /\ Len(list) = Len(tools)
          /\ \A i \in 1..Len(tools) :
               list[i] = Obj([name |-> Str(tools[i].name),
                              description |-> tools[i].description,
                              inputSchema |-> tools[i].inputSchema])

\* two tools listed, the one constructed first not first by name
C9_Witness ==
  /\ phase = "handled"
  /\ wasInitialized
  /\ MethodIs("tools/list")
  /\ tools = <<ToolB, ToolA>>
  /\ IsSuccessResponse(response)

\* C10: in the initialized state a tools/call whose params.name is a string
\* naming no constructed tool is answered with code -32602 and the message
\* "Tool not found: <name>", echoing the id, and no tool is invoked.
C10_ToolNotFound ==
  \A n \in ToolNames \ RegisteredNames :
    (HandleStep /\ wasInitialized /\ MethodIs("tools/call") /\ NamesTool(n)) =>
      /\ phase = "handled"
      /\ response = ErrorResponse(EchoedId, -32602, "Tool not found: " \o n)
      /\ invoked = <<>>

\* missingTool called with a string id on a server that has tools
C10_Witness ==
  /\ phase = "handled"
  /\ wasInitialized
  /\ MethodIs("tools/call")
  /\ NamesTool("missingTool")
  /\ EchoedId = Str("a")
  /\ tools # <<>>
  /\ response # Undefined

\* the string s begins with pre
StartsWith(s, pre) == Len(s) >= Len(pre) /\ SubSeq(s, 1, Len(pre)) = pre

\* the latest step answered a tools/call whose tool returned / failed
ToolReturned == phase = "completed" /\ toolOutcome.kind = "return"
ToolFailed == phase = "completed" /\ toolOutcome.kind = "throw"

\* the message of an error response
ErrorMessage(r) == r.o.error.o.message.s

\* what a failure value says of itself: the message of an Error, the text of a
\* thrown string
FailureText(e) == IF IsError(e) THEN e.message ELSE e.val.s

\* C11: in the initialized state, whatever value a called tool returns, the
\* response is a success whose result.content is a list of exactly one item,
\* of type "text", whose text is a string that serialises the value.
C11_SerialisedResult ==
  (ToolReturned /\ initialized) =>
    /\ IsSuccessResponse(response)
    /\ HasMember(response.o.result, "content")
    /\ response.o.result.o.content.t = "array"
    /\ Len(response.o.result.o.content.a) = 1
    /\ LET item == response.o.result.o.content.a[1]
       IN /\ HasMember(item, "type")
          /\ item.o.type = Str("text")
          /\ HasMember(item, "text")
          /\ item.o.text.t = "string"
          /\ JSONParse(item.o.text.j) = [ok |-> TRUE, val |-> toolOutcome.val]

\* C12 as stated: whatever value the tool fails with, the response is an error
\* of code -32603 whose message includes the failure's own text.
C12_FailureTextAlways ==
  ToolFailed =>
    /\ IsErrorResponse(response, -32603)
    /\ Includes(ErrorMessage(response), FailureText(toolOutcome.err))

\* C12: whatever value the tool fails with, the response is an error of code
\* -32603; its message includes the failure's message when the failure is an
\* Error, and says "Unknown error" in its place otherwise.
C12_FailureText ==
  ToolFailed =>
    /\ IsErrorResponse(response, -32603)
    /\ IsError(toolOutcome.err) =>
         Includes(ErrorMessage(response), toolOutcome.err.message)
    /\ ~IsError(toolOutcome.err) =>
         ErrorMessage(response) = "Tool execution failed: Unknown error"

\* a tool that threw a string
C12_Witness ==
  /\ ToolFailed
  /\ toolOutcome.err = NonError(Str("oops"))
  /\ HasMember(response, "error")

\* C13: every failure of a tool is answered with code -32603 and a message
\* that begins with the tool-execution prefix; the code of a JsonRpcError the
\* tool threw does not appear in the response.
C13_ToolFailureIsInternal ==
  ToolFailed =>
    /\ IsErrorResponse(response, -32603)
    /\ StartsWith(ErrorMessage(response), "Tool execution failed: ")
    /\ IsJsonRpcError(toolOutcome.err) =>
         response.o.error.o.code # Num(toolOutcome.err.code)

\* a tool that threw a JsonRpcError of code InvalidParams
C13_Witness ==
  /\ ToolFailed
  /\ IsJsonRpcError(toolOutcome.err)
  /\ toolOutcome.err.code = -32602
  /\ HasMember(response, "error")

\* the method of the latest request, a string
ReqMethod == ReqValue.o.method.s

\* C14: a valid request whose method is none of initialize, initialized,
\* tools/list and tools/call is answered, in either session state, with an
\* error of code -32601 whose message names the method and whose id is the
\* request's (null if it has none); the flag is as before and no tool is invoked.
C14_MethodNotFound ==
  (HandleStep /\ IsEnvelope
     /\ ReqMethod \notin {"initialize", "initialized", "tools/list", "tools/call"}) =>
    /\ phase = "handled"
    /\ IsErrorResponse(response, -32601)
    /\ Includes(ErrorMessage(response), ReqMethod)
    /\ response.o.id = EchoedId
    /\ initialized = wasInitialized
    /\ invoked = <<>>

\* an unknown method without an id, sent to an initialized session
C14_Witness ==
  /\ phase = "handled"
  /\ MethodIs("foo")
  /\ "id" \notin DOMAIN ReqValue.o
  /\ wasInitialized
  /\ HasMember(response, "error")

\* C15: whenever handleRequest has returned for a text that is a request
\* envelope, it returned one response, and its id is the request's id, null
\* when the request has none; this holds for successes and errors, every
\* method and both session states.
C15_EchoesId ==
  (Returned /\ IsEnvelope) =>
    /\ response # Undefined
    /\ HasMember(response, "id")
    /\ response.o.id = EchoedId

\* a failed tool call of a request that has no id
C15_Witness ==
  /\ ToolFailed
  /\ IsEnvelope
  /\ "id" \notin DOMAIN ReqValue.o
  /\ HasMember(response, "error")
  /\ response.o.id = Null

\* C16: the id of every response to an accepted request is a string, a number
\* or null.
C16_IdType ==
  (Returned /\ IsEnvelope) => response.o.id.t \in {"string", "number", "null"}

\* the latest text is JSON for an object whose method is the empty string
EmptyMethod ==
  /\ JSONParse(reqText).ok
  /\ ReqValue.t = "object"
  /\ "method" \in DOMAIN ReqValue.o
  /\ ReqValue.o.method = Str("")

\* C17 as stated: a value whose method is the empty string is rejected with
\* code -32600 and id null and reaches no branch of the switch.
C17_EmptyMethodRejected ==
  (HandleStep /\ EmptyMethod) =>
    /\ phase = "handled"
    /\ IsErrorResponse(response, -32600)
    /\ response.o.id = Null
    /\ branch = "none"

\* C17: a parsed value reaches a branch of the switch only if its method is a
\* string; a request whose method is the empty string is accepted, runs the
\* default branch and is answered with code -32601 and its own id.
C17_EmptyMethodUnknown ==
  /\ (HandleStep /\ branch # "none") => IsEnvelope
  /\ (HandleStep /\ IsEnvelope /\ EmptyMethod) =>
       /\ phase = "handled"
       /\ branch = "default"
       /\ IsErrorResponse(response, -32601)
       /\ response.o.id = EchoedId

\* a request with the empty method and the id 7
C17_Witness ==
  /\ phase = "handled"
  /\ MethodIs("")
  /\ EchoedId = Num(7)
  /\ HasMember(response, "error")

\* the codes of the error taxonomy
TaxonomyCodes == {-32700, -32600, -32601, -32602, -32603}

\* C18: every error response has a code of the taxonomy, and the failure of a
\* tool with something that is no JsonRpcError is reported as -32603.
C18_ClosedCodes ==
  /\ HasMember(response, "error") =>
       /\ HasMember(response.o.error, "code")
       /\ response.o.error.o.code.t = "number"
       /\ response.o.error.o.code.n \in TaxonomyCodes
  /\ (ToolFailed /\ ~IsJsonRpcError(toolOutcome.err)) =>
       IsErrorResponse(response, -32603)

\* a tool that threw a JsonRpcError with a code outside the taxonomy
C18_Witness ==
  /\ ToolFailed
  /\ IsJsonRpcError(toolOutcome.err)
  /\ toolOutcome.err.code \notin TaxonomyCodes
  /\ HasMember(response, "error")

\* the latest request has no params, params that is no object, or params
\* without a string name
NoToolName ==
  \/ ReqParams.t # "object"
  \/ "name" \notin DOMAIN ReqParams.o
  \/ ReqParams.o.name.t # "string"

\* C19: in the initialized state a tools/call without a string params.name is
\* answered with code -32602 and invokes no tool.
C19_MissingToolName ==
  (HandleStep /\ wasInitialized /\ MethodIs("tools/call") /\ NoToolName) =>
    /\ phase = "handled"
    /\ IsErrorResponse(response, -32602)
    /\ invoked = <<>>

\* params that is a string, sent to a server that has tools
C19_Witness ==
  /\ phase = "handled"
  /\ wasInitialized
  /\ MethodIs("tools/call")
  /\ ReqParams = Str("x")
  /\ tools # <<>>
  /\ HasMember(response, "error")

\* C20: a tools/call that invokes a tool passes it the value of
\* params.arguments whenever the request has one, and an empty object only
\* when it has none.
C20_ArgumentsPassed ==
  phase = "suspended" =>
    /\ Len(invoked) = 1
    /\ invoked[1].args = (IF "arguments" \in DOMAIN ReqParams.o
                          THEN ReqParams.o.arguments ELSE EmptyObj)

\* the latest text is an initialize request
IsInitializeRequest == MethodIs("initialize")

\* C21: a step that does not handle an initialize request leaves the flag as
\* it was; an `initialized` request sent to an uninitialized session gets a
\* success with an empty result and leaves the session uninitialized, and an
\* uninitialized session rejects tools/list with code -32600.
C21_OnlyInitializeOpens ==
  /\ (phase # "init" /\ ~IsInitializeRequest) => initialized = wasInitialized
  /\ (HandleStep /\ MethodIs("initialized") /\ ~wasInitialized) =>
       /\ phase = "handled"
       /\ response = createSuccessResponse(EchoedId, EmptyObj)
       /\ ~initialized
  /\ (HandleStep /\ MethodIs("tools/list") /\ ~wasInitialized) =>
       /\ IsErrorResponse(response, -32600)
       /\ ~initialized

\* an `initialized` request answered by a session that is still uninitialized
C21_Witness ==
  /\ phase = "handled"
  /\ MethodIs("initialized")
  /\ ~wasInitialized
  /\ ~initialized
  /\ IsSuccessResponse(response)

\* C22: a step that returns an error response leaves the server as it was:
\* the flag, the tools, the registry and the options are unchanged, and every
\* other suspended call stays suspended, so later requests are answered as if
\* the failed request had not been sent.
C22_FailureLeavesNoTrace ==
  [][(Returned' /\ HasMember(response', "error")) =>
       /\ initialized' = initialized
       /\ tools' = tools
       /\ toolRegistry' = toolRegistry
       /\ options' = options
       /\ \/ phase' = "handled" /\ pending' = pending
          \/ /\ phase' = "completed"
             /\ \E i \in 1..Len(pending) :
                  pending' = SubSeq(pending, 1, i - 1)
                               \o SubSeq(pending, i + 1, Len(pending))]_vars

\* a tool failure answered while the session is initialized and another call
\* is still suspended
C22_Witness ==
  /\ ToolFailed
  /\ HasMember(response, "error")
  /\ initialized
  /\ Len(pending) >= 1

\* C23: the response createErrorResponse returns has an error object with a
\* data member exactly when the JsonRpcError has data (no member, not a null
\* one, when it has none); the data, the code and the message are those of the
\* error, and the id is the one given.
C23_DataWhenPresent ==
  probe.fn = "createErrorResponse" =>
    LET r == probe.result
        e == probe.error
    IN /\ r.t = "object"
       /\ DOMAIN r.o = {"jsonrpc", "id", "error"}
       /\ r.o.jsonrpc = Str("2.0")
       /\ r.o.id = probe.id
       /\ r.o.error.t = "object"
       /\ ("data" \in DOMAIN r.o.error.o) = (e.data # Undefined)
       /\ e.data # Undefined => r.o.error.o.data = e.data
       /\ r.o.error.o.code = Num(e.code)
       /\ r.o.error.o.message = Str(e.message)

\* an error whose data is given and is null
C23_Witness ==
  /\ probe.fn = "createErrorResponse"
  /\ probe.error.data = Null
  /\ "data" \in DOMAIN probe.result.o.error.o

\* the latest event got its HTTP response
Answered == http.adapter \in Adapters /\ http.result # Undefined

\* C24: both adapters answer OPTIONS with status 200, an empty body and the
\* CORS headers; any other method that is not POST with 405 and the header
\* Allow: POST, with or without a body; POST without a body or with an empty
\* one with 400; POST with a body with 200 and the serialised response of
\* handleRequest, an error response included.
C24_HttpMapping ==
  Answered =>
    LET e == http.event
        r == http.result
    IN /\ e.httpMethod = "OPTIONS" =>
            /\ r.statusCode = 200
            /\ r.body = Text(<<>>)
            /\ {"Access-Control-Allow-Origin", "Access-Control-Allow-Methods",
                "Access-Control-Allow-Headers"} \subseteq DOMAIN r.headers
       /\ e.httpMethod \notin {"OPTIONS", "POST"} =>
            /\ r.statusCode = 405
            /\ "Allow" \in DOMAIN r.headers
            /\ r.headers["Allow"] = "POST"
       /\ (e.httpMethod = "POST" /\ e.body \in {Null, Text(<<>>)}) =>
            r.statusCode = 400
       /\ (e.httpMethod = "POST" /\ e.body \notin {Null, Text(<<>>)}) =>
            /\ r.statusCode = 200
            /\ reqText = e.body.j
            /\ Returned
            /\ r.body = Text(Tokens(response))

\* a POST answered with status 200 that carries a JSON-RPC error
C24_Witness ==
  /\ Answered
  /\ http.adapter = "defaultMcpHandler"
  /\ http.event.httpMethod = "POST"
  /\ http.result.statusCode = 200
  /\ HasMember(response, "error")
  /\ http.result.body = Text(Tokens(response))

\* the latest request names a tool that is registered
NamesRegisteredTool ==
  ~NoToolName /\ ReqParams.o.name.s \in RegisteredNames

\* C25: tools/call checks in this order, and the first check that fails
\* decides: an uninitialized session answers -32600 whatever the params are;
\* then a missing or non-string name gives -32602 "Missing tool name"; then an
\* unknown tool gives -32602 "Tool not found"; only then the tool is invoked.
C25_CheckOrder ==
  (HandleStep /\ MethodIs("tools/call")) =>
    IF ~wasInitialized
    THEN /\ phase = "handled"
         /\ response = ErrorResponse(EchoedId, -32600, "Server not initialized")
    ELSE IF NoToolName
    THEN /\ phase = "handled"
         /\ response = ErrorResponse(EchoedId, -32602, "Missing tool name")
    ELSE IF ~NamesRegisteredTool
    THEN /\ phase = "handled"
         /\ response = ErrorResponse(EchoedId, -32602,
                                     "Tool not found: " \o ReqParams.o.name.s)
    ELSE phase = "suspended" /\ Len(invoked) = 1

\* a tools/call without params, sent to an uninitialized session
C25_Witness ==
  /\ phase = "handled"
  /\ MethodIs("tools/call")
  /\ ~wasInitialized
  /\ ReqParams = Undefined
  /\ HasMember(response, "error")

\* C26: a step invokes a tool only if it handles a tools/call that passed the
\* session, name and lookup checks, and then it invokes one tool, once: the
\* one registered under params.name.  No other request invokes a tool, and the
\* step in which a tool returned or failed invokes none.
C26_InvokedOnce ==
  /\ (HandleStep /\ wasInitialized /\ MethodIs("tools/call") /\ NamesRegisteredTool) =>
       /\ Len(invoked) = 1
       /\ invoked[1].tool.name = ReqParams.o.name.s
       /\ invoked[1].tool = toolRegistry[ReqParams.o.name.s]
  /\ invoked # <<>> =>
       /\ phase = "suspended"
       /\ toolOutcome = Undefined
       /\ wasInitialized /\ MethodIs("tools/call") /\ NamesRegisteredTool
  /\ phase = "completed" => invoked = <<>>

\* a tool has failed, and its failure has been answered without another call
C26_Witness ==
  /\ ToolFailed
  /\ invoked = <<>>
  /\ HasMember(response, "error")

\* the response a tools/call gets when its tool completed with out
OwnResponse(id, out) ==
  IF out.kind = "return"
  THEN createSuccessResponse(id,
         Obj([content |-> Arr(<<Obj([type |-> Str("text"),
                                     text |-> Text(Tokens(out.val))])>>)]))
  ELSE ErrorResponse(id, -32603,
         "Tool execution failed: "
           \o (IF IsError(out.err) THEN out.err.message ELSE "Unknown error"))

\* C27: while calls are suspended, every response carries the id of its own
\* request, and a call that completes is answered with its own id and the
\* result or failure of its own tool, whatever was handled in between.
C27_OwnResponse ==
  /\ (phase = "handled" /\ pending # <<>> /\ IsEnvelope) => response.o.id = EchoedId
  /\ phase = "completed" => response = OwnResponse(EchoedId, toolOutcome)

\* a call completes while a call with another id is still suspended
C27_Witness ==
  /\ phase = "completed"
  /\ Len(pending) >= 1
  /\ IdOf(pending[1].request) # EchoedId
  /\ response.o.id = EchoedId

\* C28: a suspended call is answered only when its tool completes, and it
\* blocks nothing: while calls are suspended every other request can be
\* handled and is answered at once, and each suspended call can complete and
\* is then answered.
C28_BlocksOnlyItself ==
  /\ phase = "suspended" => response = Undefined /\ Len(pending) >= 1
  /\ phase = "completed" => toolOutcome # Undefined /\ response # Undefined
  /\ (phase = "handled" /\ pending # <<>>) => response # Undefined
  /\ (pending # <<>> /\ Len(pending) < MaxConcurrent) =>
       \A text \in ConcurrentTexts :
         \E c \in {handleRequest(Self, text)} :
           ENABLED (Proceed(text, c, MaxConcurrent) /\ UNCHANGED <<http, probe, peer>>)
  /\ \A i \in 1..Len(pending) :
       \A out \in ConcurrentOutcomes : ENABLED Complete(i, out)

\* a request answered while a call is suspended in its tool
C28_Witness ==
  /\ phase = "handled"
  /\ Len(pending) >= 1
  /\ MethodIs("tools/list")
  /\ IsSuccessResponse(response)

\* the latest response rejects the request as sent to an uninitialized session
RejectedAsUninitialized ==
  /\ HasMember(response, "error")
  /\ \/ IsErrorResponse(response, -32600)
     \/ ErrorMessage(response) = "Server not initialized"

\* C29: once an initialize request has been answered, no tools/list and no
\* tools/call is rejected as uninitialized, also while calls are suspended.
C29_ReadAfterWrite ==
  (HandleStep /\ initCount >= 1 /\ (MethodIs("tools/list") \/ MethodIs("tools/call"))) =>
    /\ wasInitialized
    /\ ~RejectedAsUninitialized

\* a tools/call handled after an initialize while another call is suspended
C29_Witness ==
  /\ phase = "suspended"
  /\ initCount >= 1
  /\ Len(pending) = 2
  /\ MethodIs("tools/call")

\* C30: no step changes the tools or the registry: a tools/list answered by
\* an initialized session lists the tools as they were before the step, and a
\* tool that is invoked is the one its name resolved to before the step.
C30_ToolsImmutable ==
  [][/\ tools' = tools
     /\ toolRegistry' = toolRegistry
     /\ (phase' = "handled" /\ branch' = "tools/list" /\ initialized) =>
          response'.o.result = Obj([tools |-> Arr(ListedTools(tools))])
     /\ phase' = "suspended" =>
          invoked'[1].tool = RegistryGet(toolRegistry, invoked'[1].tool.name)]_vars

\* tools/list answered after a second initialize, while a call is suspended
C30_Witness ==
  /\ phase = "handled"
  /\ MethodIs("tools/list")
  /\ initCount = 2
  /\ pending # <<>>
  /\ IsSuccessResponse(response)

\* the tool of the sequence ts that is the last one named n
LastNamed(ts, n) ==
  ts[CHOOSE i \in 1..Len(ts) :
       ts[i].name = n /\ \A j \in (i + 1)..Len(ts) : ts[j].name # n]

NamesOf(ts) == {ts[i].name : i \in 1..Len(ts)}

\* C31: a tool sequence in which several tools have the same name is accepted
\* by the McpServer constructor and by buildRegistry; the registry holds
\* exactly the names of the sequence, the lookup of a name gives the last tool
\* of that name, and that is the tool a tools/call of the name invokes.
C31_LastWins ==
  /\ DOMAIN toolRegistry = NamesOf(tools)
  /\ \A n \in NamesOf(tools) : RegistryGet(toolRegistry, n) = LastNamed(tools, n)
  /\ (phase = "suspended" /\ MethodIs("tools/call")) =>
       /\ Len(invoked) = 1
       /\ invoked[1].tool = LastNamed(tools, ReqParams.o.name.s)
  /\ probe.fn = "buildRegistry" =>
       /\ DOMAIN probe.result = NamesOf(probe.tools)
       /\ \A n \in NamesOf(probe.tools) : probe.result[n] = LastNamed(probe.tools, n)

\* toolA is called on a server constructed from two tools named toolA, another
\* tool between them, and buildRegistry has been given such a sequence too
C31_Witness ==
  /\ tools = <<ToolA, ToolB, ToolA2>>
  /\ phase = "suspended"
  /\ NamesTool("toolA")
  /\ invoked[1].tool = ToolA2
  /\ probe.fn = "buildRegistry"
  /\ probe.tools = <<ToolA2, ToolB, ToolA>>
  /\ probe.result["toolA"] = ToolA

\* the tools/call request of the tool named n
CallOf(n) == Req(Num(0), Str("tools/call"), Obj([name |-> Str(n)]))

\* C32: tools/list and tools/call agree on every server: the names listed are
\* the names tools/call accepts, no name is listed twice, and the description
\* and the schema listed for a name are those of the tool a tools/call of that
\* name invokes.
C32_ListAgreesWithCall ==
  (phase = "handled" /\ wasInitialized /\ MethodIs("tools/list")
     /\ IsSuccessResponse(response)) =>
    LET list == response.o.result.o.tools.a
    IN /\ {list[i].o.name.s : i \in 1..Len(list)}
            = {n \in ToolNames : handleToolsCall(Self, CallOf(n)).kind = "await"}
       /\ \A i, j \in 1..Len(list) : list[i].o.name = list[j].o.name => i = j
       /\ \A i \in 1..Len(list) :
            \E c \in {handleToolsCall(Self, CallOf(list[i].o.name.s))} :
              /\ c.kind = "await"
              /\ c.tool.description = list[i].o.description
              /\ c.tool.inputSchema = list[i].o.inputSchema

\* the module held at the i-th key of a module map
ModuleAt(mods, i) == mods.at[mods.order[i]]

\* the tool buildTools is to make of the i-th entry
ToolOfEntry(mods, i) ==
  [name |-> mods.order[i],
   description |-> Get(Get(ModuleAt(mods, i), "metadata"), "description"),
   inputSchema |-> Get(Get(ModuleAt(mods, i), "metadata"), "inputSchema"),
   handler |-> Get(ModuleAt(mods, i), "handler")]

\* every module of the map exports a metadata that has properties to read
AllDeclareMetadata(mods) ==
  \A i \in 1..Len(mods.order) :
    Get(ModuleAt(mods, i), "metadata").t \notin {"undefined", "null"}

\* C33 as stated: for every module map buildTools returns one tool per entry,
\* in the map's order, named by the key and carrying the module's
\* metadata.description, metadata.inputSchema and handler.
C33_OneToolPerEntry ==
  probe.fn = "buildTools" =>
    /\ probe.result.kind = "return"
    /\ Len(probe.result.val) = Len(probe.mods.order)
    /\ \A i \in 1..Len(probe.mods.order) :
         probe.result.val[i] = ToolOfEntry(probe.mods, i)

\* C33: when every module of the map exports metadata, buildTools returns one
\* tool per entry, in the map's order, named by the key (never by a name the
\* metadata declares) and carrying the module's metadata.description,
\* metadata.inputSchema and handler as they are, undefined when absent; when
\* some module exports no metadata, buildTools throws and returns no tool.
C33_BuiltFromMetadata ==
  probe.fn = "buildTools" =>
    IF AllDeclareMetadata(probe.mods)
    THEN /\ probe.result.kind = "return"
         /\ Len(probe.result.val) = Len(probe.mods.order)
         /\ \A i \in 1..Len(probe.mods.order) :
              /\ probe.result.val[i] = ToolOfEntry(probe.mods, i)
              /\ probe.result.val[i].name = probe.mods.order[i]
    ELSE /\ probe.result.kind = "throw"
         /\ IsError(probe.result.err)

\* two modules, the first declaring a name in its metadata, the second with a
\* numeric description and neither schema nor handler, held in an order that
\* is not alphabetical
C33_Witness ==
  /\ probe.fn = "buildTools"
  /\ probe.mods.order = <<"weather", "add">>
  /\ probe.mods.at["weather"] = ModNamed
  /\ probe.mods.at["add"] = ModLoose
  /\ probe.result.kind = "return"
  /\ probe.result.val[1].name = "weather"
  /\ probe.result.val[2].handler = Undefined

\* a session newly constructed from the same name, version and tools, whose
\* flag is set as given
FreshSelf(flag) ==
  [options |-> options, tools |-> tools, toolRegistry |-> RegistryOf(tools, <<>>),
   initialized |-> flag]

\* the session had handled an initialize request before the latest call of
\* handleRequest began
HadInitialize ==
  IF HandleStep /\ branch = "initialize" THEN initCount >= 2 ELSE initCount >= 1

\* C34: the response to a request depends on what the session handled before
\* only through whether it handled an initialize: it is the response that a
\* newly constructed session with the same name, version and tools gives to
\* the same text (and the same outcome of the tool), its flag set if and only
\* if an initialize was handled.
C34_OnlyTheFlag ==
  phase # "init" =>
    \E c \in {handleRequest(FreshSelf(HadInitialize), reqText)} :
      CASE phase = "handled" -> c.kind = "return" /\ response = c.val
        [] phase = "suspended" -> c.kind = "await"
        [] phase = "completed" ->
             /\ c.kind = "await"
             /\ \E d \in {handleRequestResume(FreshSelf(TRUE), c.request, toolOutcome)} :
                  d.kind = "return" /\ response = d.val

\* tools/list is answered by a session that has handled two initialize
\* requests and a tools/call that is still suspended
C34_Witness ==
  /\ phase = "handled"
  /\ MethodIs("tools/list")
  /\ IsSuccessResponse(response)
  /\ initCount >= 2
  /\ pending # <<>>

\* the POST event whose body is the text of the request v
PostOf(v) == [httpMethod |-> "POST", body |-> Text(Tokens(v))]

ListEvent == PostOf(Req(Num(3), Str("tools/list"), Undefined))
CallEvent == PostOf(Req(Num(4), Str("tools/call"), Obj([name |-> Str("toolA")])))

\* the answer of a handler to ListEvent, its server having handled an
\* initialize request (opened) or none
ListAnswer(self, opened) ==
  Delivered(IF opened
            THEN createSuccessResponse(Num(3),
                   Obj([tools |-> Arr(ListedTools(self.tools))]))
            ELSE ErrorResponse(Num(3), -32600, "Server not initialized"))

\* the answer of a handler to CallEvent is that of a server not initialized
CallRefused(result) ==
  result = Delivered(ErrorResponse(Num(4), -32600, "Server not initialized"))

\* C35: each handler has one server, constructed when the handler was created:
\* once a handler has handled an initialize in some invocation, tools/list and
\* tools/call succeed in its later invocations, and until it has handled one
\* of its own they are refused, whatever the other handler has handled.
C35_OneServerPerHandler ==
  /\ initialized = (initCount >= 1)
  /\ peer.initialized = peer.opened
  /\ http.event = ListEvent => http.result = ListAnswer(Self, initCount >= 1)
  /\ peer.event = ListEvent => peer.result = ListAnswer(PeerSelf, peer.opened)
  /\ http.event = CallEvent =>
       IF initCount >= 1
       THEN http.result = Undefined
              \/ (http.result.statusCode = 200 /\ ~CallRefused(http.result))
       ELSE CallRefused(http.result)
  /\ peer.event = CallEvent =>
       IF peer.opened
       THEN peer.result = Undefined
              \/ (peer.result.statusCode = 200 /\ ~CallRefused(peer.result))
       ELSE CallRefused(peer.result)

\* two handlers created with the same adapter, name and tools: the first has
\* handled an initialize and lists its tools, the second is asked to list its
\* tools after that and refuses
C35_Witness ==
  /\ http.adapter = peer.adapter
  /\ options = peer.options
  /\ initCount >= 1
  /\ ~peer.opened
  /\ http.event = ListEvent
  /\ http.result = ListAnswer(Self, TRUE)
  /\ peer.event = ListEvent
  /\ peer.result = ListAnswer(PeerSelf, FALSE)

CallToolEvent ==
  /\ http.event # Undefined
  /\ http.event.httpMethod = "POST"
  /\ Includes(http.event.path, "/mcp/callTool")

\* what the body of the latest event parses to, an absent body read as {}
LegacyBody ==
  JSONParse(IF Truthy(http.event.body) THEN http.event.body.j
            ELSE <<P("{"), P("}")>>)

\* the body is a JSON object whose tool is a string that names no built tool,
\* or that has no tool
NamesNoBuiltTool ==
  /\ LegacyBody.ok
  /\ LegacyBody.val.t = "object"
  /\ \/ "tool" \notin DOMAIN LegacyBody.val.o
     \/ /\ LegacyBody.val.o.tool.t = "string"
        /\ LegacyBody.val.o.tool.s \notin NamesOf(tools)

\* the body is a JSON object whose tool is the name of a built tool
NamesBuiltTool ==
  /\ LegacyBody.ok
  /\ LegacyBody.val.t = "object"
  /\ "tool" \in DOMAIN LegacyBody.val.o
  /\ LegacyBody.val.o.tool.t = "string"
  /\ LegacyBody.val.o.tool.s \in NamesOf(tools)

UnknownTool ==
  [statusCode |-> 404, body |-> Stringified(Obj([error |-> Str("Unknown tool")]))]

\* C37: a POST to callTool whose tool names no built tool, whatever string it
\* is, or is missing, is answered with status 404 and the error "Unknown tool"
\* and no tool handler is invoked; a status 500 comes only of a body that is
\* not JSON or of the failure of the handler of a tool that was found.
C37_UnknownToolIs404 ==
  /\ (phase \in {"handled", "suspended"} /\ CallToolEvent /\ NamesNoBuiltTool) =>
       /\ http.result = UnknownTool
       /\ invoked = <<>>
  /\ (CallToolEvent /\ http.result # Undefined /\ http.result.statusCode = 500) =>
       \/ ~LegacyBody.ok
       \/ NamesBuiltTool /\ phase = "handled"
       \/ NamesBuiltTool /\ phase = "completed" /\ toolOutcome.kind = "throw"

====
